---------------------------- MODULE Spec2Model ----------------------------
(***************************************************************************)
(* A model of zerosumfc: the immutable game values of zerosumfc/data.py    *)
(* (PlayerState, GameState) and the search state of                        *)
(* zerosumfc/minmaxagent.py (HiddenState, MinMaxState and its transition   *)
(* function perform_action).                                               *)
(*                                                                         *)
(* Probabilities are Python floats count / total.  They are modelled as    *)
(* exact fractions [num, den]; for the shell counts of the model the float *)
(* quotients L/(L+B) and B/(L+B) add up to exactly 1.0 as well.            *)
(*                                                                         *)
(* A Python call that raises is modelled by a result whose raised field is *)
(* TRUE and which carries no outcome.                                      *)
(*                                                                         *)
(* Spec explores perform_action from the search states a game can start    *)
(* in; SpecGameState explores GameState.shoot and end_turn on every        *)
(* visible state within the bounds.                                        *)
(***************************************************************************)
EXTENDS Integers, Sequences, FiniteSets, TLC

VARIABLES
    state,   \* the current MinMaxState (visible_state, hidden_state)
    last     \* the last call: operation, arguments, receiver, result

vars == <<state, last>>

---------------------------------------------------------------------------
(* Bounds of the model *)

MaxHealth == 2      \* max_health of the games explored
MaxShells == 2      \* live and blank counts range over 0..MaxShells
MaxCount == 1       \* item counts of the initial inventories

(* Program constants *)

MAX_ITEMS == 8

---------------------------------------------------------------------------
(* data.py: the enumerations, in declaration order *)

None == "None"

Role == {"PLAYER", "DEALER"}
RoleList == <<"PLAYER", "DEALER">>

Item == {"GLASS", "CIGARETTES", "BEER", "SAW", "HANDCUFFS"}
ItemList == <<"GLASS", "CIGARETTES", "BEER", "SAW", "HANDCUFFS">>

Shell == {"LIVE", "BLANK"}
ShellList == <<"LIVE", "BLANK">>

opponent(role) == IF role = "PLAYER" THEN "DEALER" ELSE "PLAYER"

Max(a, b) == IF a >= b THEN a ELSE b
Min(a, b) == IF a <= b THEN a ELSE b

---------------------------------------------------------------------------
(* Fractions standing for the float probabilities *)

Frac(n, d) == [num |-> n, den |-> d]
FracEq(a, b) == a.num * b.den = b.num * a.den
FracAdd(a, b) == Frac(a.num * b.den + b.num * a.den, a.den * b.den)

---------------------------------------------------------------------------
(* data.py: PlayerState *)

PlayerState_new(health) ==
    [health |-> health, glass_count |-> 0, beer_count |-> 0, saw_count |-> 0,
     handcuffs_count |-> 0, cigarettes_count |-> 0]

PlayerState_getitem(self, item) ==
    CASE item = "GLASS" -> self.glass_count
      [] item = "BEER" -> self.beer_count
      [] item = "HANDCUFFS" -> self.handcuffs_count
      [] item = "CIGARETTES" -> self.cigarettes_count
      [] item = "SAW" -> self.saw_count

PlayerState_contains(self, item) == PlayerState_getitem(self, item) > 0

PlayerState_total_items(self) ==
    self.glass_count + self.beer_count + self.saw_count
        + self.handcuffs_count + self.cigarettes_count

\* Faulty variant: the clamp at 0 left out.
PlayerState_damage_unclamped(self, amount) ==
    [self EXCEPT !.health = self.health - amount]

PlayerState_damage(self, amount) ==
    [self EXCEPT !.health = Max(0, self.health - amount)]

\* Faulty variant: the inventory is taken to be full only above MAX_ITEMS.
PlayerState_add_item_off_by_one(self, item) ==
    IF PlayerState_total_items(self) > MAX_ITEMS THEN self
    ELSE CASE item = "GLASS" -> [self EXCEPT !.glass_count = @ + 1]
           [] item = "BEER" -> [self EXCEPT !.beer_count = @ + 1]
           [] item = "HANDCUFFS" -> [self EXCEPT !.handcuffs_count = @ + 1]
           [] item = "CIGARETTES" -> [self EXCEPT !.cigarettes_count = @ + 1]
           [] item = "SAW" -> [self EXCEPT !.saw_count = @ + 1]

PlayerState_add_item(self, item) ==
    IF PlayerState_total_items(self) >= MAX_ITEMS THEN self
    ELSE CASE item = "GLASS" -> [self EXCEPT !.glass_count = @ + 1]
           [] item = "BEER" -> [self EXCEPT !.beer_count = @ + 1]
           [] item = "HANDCUFFS" -> [self EXCEPT !.handcuffs_count = @ + 1]
           [] item = "CIGARETTES" -> [self EXCEPT !.cigarettes_count = @ + 1]
           [] item = "SAW" -> [self EXCEPT !.saw_count = @ + 1]

RECURSIVE PlayerState_add_all(_, _)
PlayerState_add_all(self, items) ==
    IF items = <<>> THEN self
    ELSE PlayerState_add_all(PlayerState_add_item(self, Head(items)), Tail(items))

\* Faulty variant: the SAW case decrements the handcuffs count.
PlayerState_take_item_wrong_field(self, item) ==
    IF PlayerState_contains(self, item)
    THEN [found |-> TRUE,
          state |-> CASE item = "GLASS" -> [self EXCEPT !.glass_count = @ - 1]
                      [] item = "BEER" -> [self EXCEPT !.beer_count = @ - 1]
                      [] item = "HANDCUFFS" -> [self EXCEPT !.handcuffs_count = @ - 1]
                      [] item = "CIGARETTES" -> [self EXCEPT !.cigarettes_count = @ - 1]
                      [] item = "SAW" -> [self EXCEPT !.handcuffs_count = @ - 1]]
    ELSE [found |-> FALSE, state |-> self]

PlayerState_take_item(self, item) ==
    IF PlayerState_contains(self, item)
    THEN [found |-> TRUE,
          state |-> CASE item = "GLASS" -> [self EXCEPT !.glass_count = @ - 1]
                      [] item = "BEER" -> [self EXCEPT !.beer_count = @ - 1]
                      [] item = "HANDCUFFS" -> [self EXCEPT !.handcuffs_count = @ - 1]
                      [] item = "CIGARETTES" -> [self EXCEPT !.cigarettes_count = @ - 1]
                      [] item = "SAW" -> [self EXCEPT !.saw_count = @ - 1]]
    ELSE [found |-> FALSE, state |-> self]

---------------------------------------------------------------------------
(* data.py: GameState *)

\* __post_init__ accepts the value (it raises ValueError otherwise)
GameState_post_init(self) ==
    /\ self.player_state.health <= self.max_health
    /\ self.dealer_state.health <= self.max_health

GameState_getitem(self, role) ==
    IF role = "DEALER" THEN self.dealer_state ELSE self.player_state

GameState_new(max_health) ==
    [player_state |-> PlayerState_new(max_health),
     dealer_state |-> PlayerState_new(max_health),
     max_health |-> max_health,
     current_player |-> "PLAYER",
     saw_active |-> FALSE,
     handcuffs_active |-> FALSE]

GameState_replace_player(self, player_state, player) ==
    IF player = "DEALER" THEN [self EXCEPT !.dealer_state = player_state]
    ELSE [self EXCEPT !.player_state = player_state]

\* Faulty variant: only the saw is reset.
GameState_reset_modifiers_saw_only(self) ==
    [self EXCEPT !.saw_active = FALSE]

GameState_reset_modifiers(self) ==
    [self EXCEPT !.handcuffs_active = FALSE, !.saw_active = FALSE]

\* Faulty variant: the turn passes whether or not the handcuffs are active.
GameState_end_turn_always_passes(self) ==
    [GameState_reset_modifiers(self) EXCEPT
         !.current_player = opponent(self.current_player)]

GameState_end_turn(self) ==
    IF self.handcuffs_active THEN GameState_reset_modifiers(self)
    ELSE [GameState_reset_modifiers(self) EXCEPT
              !.current_player = opponent(self.current_player)]

\* Faulty variant: a blank fired at oneself returns the state as it is.
GameState_shoot_keeps_saw(self, shell, target) ==
    IF shell = "BLANK" /\ target = self.current_player
    THEN self
    ELSE LET amount0 == IF shell = "LIVE" THEN 1 ELSE 0
             amount == IF self.saw_active THEN amount0 * 2 ELSE amount0
             player_state == PlayerState_damage(GameState_getitem(self, target), amount)
         IN GameState_end_turn(GameState_replace_player(self, player_state, target))

GameState_shoot(self, shell, target) ==
    IF shell = "BLANK" /\ target = self.current_player
    THEN [self EXCEPT !.saw_active = FALSE]
    ELSE LET amount0 == IF shell = "LIVE" THEN 1 ELSE 0
             amount == IF self.saw_active THEN amount0 * 2 ELSE amount0
             player_state == PlayerState_damage(GameState_getitem(self, target), amount)
         IN GameState_end_turn(GameState_replace_player(self, player_state, target))

\* Faulty variant: the health is raised without the bracket to max_health.
GameState_heal_current_player_unclamped(self, amount) ==
    LET cur == GameState_getitem(self, self.current_player)
    IN GameState_replace_player(self, [cur EXCEPT !.health = @ + amount],
                                self.current_player)

GameState_heal_current_player(self, amount) ==
    LET cur == GameState_getitem(self, self.current_player)
        new_health == Min(self.max_health, cur.health + amount)
    IN GameState_replace_player(self, [cur EXCEPT !.health = new_health],
                                self.current_player)

GameState_take_item(self, item) ==
    LET r == PlayerState_take_item(GameState_getitem(self, self.current_player), item)
    IN [taken |-> r.found,
        state |-> GameState_replace_player(self, r.state, self.current_player)]

GameState_add_all(self, player_items, dealer_items) ==
    [self EXCEPT !.player_state = PlayerState_add_all(self.player_state, player_items),
                 !.dealer_state = PlayerState_add_all(self.dealer_state, dealer_items)]

GameState_set_player_health(self, player, health) ==
    GameState_replace_player(
        self, [GameState_getitem(self, player) EXCEPT !.health = health], player)

---------------------------------------------------------------------------
(* minmaxagent.py: HiddenState *)

HiddenState(live, blank, next) ==
    [live_shells |-> live, blank_shells |-> blank, next_shell |-> next]

\* __post_init__ accepts the value (it raises ValueError otherwise)
HiddenState_post_init(self) ==
    /\ ~(self.live_shells < 0)
    /\ ~(self.blank_shells < 0)
    /\ ~(self.live_shells = 0 /\ self.next_shell = "LIVE")
    /\ ~(self.blank_shells = 0 /\ self.next_shell = "BLANK")

\* Faulty variant: the known next shell survives the draw.
HiddenState_use_keeps_next(self, shell) ==
    IF shell = "LIVE"
    THEN [self EXCEPT !.live_shells = @ - 1]
    ELSE [self EXCEPT !.blank_shells = @ - 1]

\* the value handed to __post_init__ by dataclasses.replace
HiddenState_use(self, shell) ==
    IF shell = "LIVE"
    THEN [self EXCEPT !.live_shells = @ - 1, !.next_shell = None]
    ELSE [self EXCEPT !.blank_shells = @ - 1, !.next_shell = None]

\* Faulty variant: both kinds read the live count.
HiddenState_count_live_only(self, shell) ==
    IF shell = "LIVE" THEN self.live_shells ELSE self.live_shells

HiddenState_count(self, shell) ==
    IF shell = "LIVE" THEN self.live_shells ELSE self.blank_shells

\* Faulty variant: the total counts the shell being drawn twice.
HiddenState_prob_wrong_total(self, shell) ==
    LET count == HiddenState_count(self, shell)
        total == self.live_shells + self.blank_shells + 1
    IN IF count = 0 THEN Frac(0, 1) ELSE Frac(count, total)

HiddenState_prob(self, shell) ==
    LET count == HiddenState_count(self, shell)
        total == self.live_shells + self.blank_shells
    IN IF count = 0 THEN Frac(0, 1) ELSE Frac(count, total)

---------------------------------------------------------------------------
(* minmaxagent.py: MinMaxState *)

MinMaxState(visible, hidden) == [visible_state |-> visible, hidden_state |-> hidden]

StateProb(p, s) == [p_state |-> p, state |-> s]

Raise == [raised |-> TRUE, states |-> <<>>]

\* The list is returned unless the construction of one of its states raised.
Return(states) ==
    IF \A i \in 1..Len(states) :
           /\ HiddenState_post_init(states[i].state.hidden_state)
           /\ GameState_post_init(states[i].state.visible_state)
    THEN [raised |-> FALSE, states |-> states]
    ELSE Raise

\* Faulty variant: the loops visit every shell kind, whatever its count.
ShellsLeft_unguarded(hidden) == ShellList

\* The shells the loops "for shell in list(Shell): if count(shell) > 0" visit.
ShellsLeft(hidden) ==
    LET Left(shell) == HiddenState_count(hidden, shell) > 0
    IN SelectSeq(ShellList, Left)

\* Faulty variant: the result of take_item is not checked.
MinMaxState_try_take_unchecked(self, item) ==
    LET r == GameState_take_item(self.visible_state, item)
    IN [raised |-> FALSE, state |-> r.state]

MinMaxState_try_take(self, item) ==
    LET r == GameState_take_item(self.visible_state, item)
    IN [raised |-> ~r.taken, state |-> r.state]

MinMaxState_shoot(self, target) ==
    LET shells == ShellsLeft(self.hidden_state)
        make_state(shell) ==
            MinMaxState(GameState_shoot(self.visible_state, shell, target),
                        HiddenState_use(self.hidden_state, shell))
    IN Return([i \in 1..Len(shells) |->
                  StateProb(HiddenState_prob(self.hidden_state, shells[i]),
                            make_state(shells[i]))])

\* Faulty variant: the turn ends when the shell is ejected.
MinMaxState_use_beer_ends_turn(self) ==
    LET t == MinMaxState_try_take(self, "BEER")
        shells == ShellsLeft(self.hidden_state)
        make_state(shell) ==
            MinMaxState(GameState_end_turn(t.state),
                        HiddenState_use(self.hidden_state, shell))
    IN IF t.raised THEN Raise
       ELSE Return([i \in 1..Len(shells) |->
                       StateProb(HiddenState_prob(self.hidden_state, shells[i]),
                                 make_state(shells[i]))])

MinMaxState_use_beer(self) ==
    LET t == MinMaxState_try_take(self, "BEER")
        shells == ShellsLeft(self.hidden_state)
        make_state(shell) ==
            MinMaxState(t.state, HiddenState_use(self.hidden_state, shell))
    IN IF t.raised THEN Raise
       ELSE Return([i \in 1..Len(shells) |->
                       StateProb(HiddenState_prob(self.hidden_state, shells[i]),
                                 make_state(shells[i]))])

MinMaxState_use_cigarettes(self) ==
    LET t == MinMaxState_try_take(self, "CIGARETTES")
    IN IF t.raised THEN Raise
       ELSE Return(<<StateProb(Frac(1, 1),
                       MinMaxState(GameState_heal_current_player(t.state, 1),
                                   self.hidden_state))>>)

MinMaxState_use_handcuffs(self) ==
    LET t == MinMaxState_try_take(self, "HANDCUFFS")
    IN IF t.raised THEN Raise
       ELSE Return(<<StateProb(Frac(1, 1),
                       MinMaxState([t.state EXCEPT !.handcuffs_active = TRUE],
                                   self.hidden_state))>>)

\* Faulty variant: the shell seen is drawn, as use_beer draws it.
MinMaxState_use_glass_draws(self) ==
    LET t == MinMaxState_try_take(self, "GLASS")
        shells == ShellsLeft(self.hidden_state)
        make_state(shell) ==
            MinMaxState(t.state, HiddenState_use(self.hidden_state, shell))
    IN IF t.raised THEN Raise
       ELSE Return([i \in 1..Len(shells) |->
                       StateProb(HiddenState_prob(self.hidden_state, shells[i]),
                                 make_state(shells[i]))])

\* Faulty variant: the outcomes keep the visible state, glass included.
MinMaxState_use_glass_keeps_item(self) ==
    LET t == MinMaxState_try_take(self, "GLASS")
        shells == ShellsLeft(self.hidden_state)
        make_state(shell) ==
            MinMaxState(self.visible_state,
                        [self.hidden_state EXCEPT !.next_shell = shell])
    IN IF t.raised THEN Raise
       ELSE Return([i \in 1..Len(shells) |->
                       StateProb(HiddenState_prob(self.hidden_state, shells[i]),
                                 make_state(shells[i]))])

MinMaxState_use_glass(self) ==
    LET t == MinMaxState_try_take(self, "GLASS")
        shells == ShellsLeft(self.hidden_state)
        make_state(shell) ==
            MinMaxState(t.state, [self.hidden_state EXCEPT !.next_shell = shell])
    IN IF t.raised THEN Raise
       ELSE Return([i \in 1..Len(shells) |->
                       StateProb(HiddenState_prob(self.hidden_state, shells[i]),
                                 make_state(shells[i]))])

MinMaxState_use_saw(self) ==
    LET t == MinMaxState_try_take(self, "SAW")
    IN IF t.raised THEN Raise
       ELSE Return(<<StateProb(Frac(1, 1),
                       MinMaxState([t.state EXCEPT !.saw_active = TRUE],
                                   self.hidden_state))>>)

MinMaxState_use_item(self, item) ==
    CASE item = "BEER" -> MinMaxState_use_beer(self)
      [] item = "CIGARETTES" -> MinMaxState_use_cigarettes(self)
      [] item = "HANDCUFFS" -> MinMaxState_use_handcuffs(self)
      [] item = "GLASS" -> MinMaxState_use_glass(self)
      [] item = "SAW" -> MinMaxState_use_saw(self)
      [] OTHER -> Raise

\* Action values: Shoot(target) and Use(item)
ShootAction(target) == [kind |-> "Shoot", target |-> target, item |-> None]
UseAction(item) == [kind |-> "Use", target |-> None, item |-> item]

MinMaxState_perform_action(self, action) ==
    CASE action.kind = "Shoot" -> MinMaxState_shoot(self, action.target)
      [] action.kind = "Use" -> MinMaxState_use_item(self, action.item)
      [] OTHER -> Raise

---------------------------------------------------------------------------
(* The calls explored.  A call of perform_action is recorded in last with   *)
(* its receiver (pre) and result; the search then continues from any one of *)
(* the returned states, or from the same state when none was returned.      *)

Call(op, action, shell, pre, result) ==
    [op |-> op, target |-> action.target, item |-> action.item, shell |-> shell,
     pre |-> pre, raised |-> result.raised, states |-> result.states]

PerformAction(action) ==
    LET r == MinMaxState_perform_action(state, action)
    IN /\ last' = Call(action.kind, action, None, state, r)
       /\ IF r.states = <<>> THEN state' = state
          ELSE \E i \in 1..Len(r.states) : state' = r.states[i].state

Shoot(target) == PerformAction(ShootAction(target))

Use(item) == PerformAction(UseAction(item))

\* GameState.shoot(shell, target) applied to the visible state; the call
\* raises when __post_init__ rejects the GameState it builds.
GameStateShoot(shell, target) ==
    LET new == GameState_shoot(state.visible_state, shell, target)
        raised == ~GameState_post_init(new)
    IN /\ last' = Call("GameState.shoot", ShootAction(target), shell, state,
                       [raised |-> raised, states |-> <<>>])
       /\ state' = IF raised THEN state ELSE [state EXCEPT !.visible_state = new]

\* GameState.end_turn() applied to the visible state
EndTurn ==
    LET new == GameState_end_turn(state.visible_state)
        raised == ~GameState_post_init(new)
    IN /\ last' = Call("GameState.end_turn", [target |-> None, item |-> None], None,
                       state, [raised |-> raised, states |-> <<>>])
       /\ state' = IF raised THEN state ELSE [state EXCEPT !.visible_state = new]

\* k copies of item, as the tests' [item] * k
Copies(item, k) == [i \in 1..k |-> item]

NoCall(pre) ==
    [op |-> "none", target |-> None, item |-> None, shell |-> None,
     pre |-> pre, raised |-> FALSE, states |-> <<>>]

(* Search states as the tests and the agent build them: a new game of      *)
(* max_health MaxHealth, add_all([item] * kp, [item] * kd), either role to *)
(* move, and any valid HiddenState.  Lower healths, active modifiers and   *)
(* used-up items are reached by the actions.                               *)
Init ==
    \E item \in Item, kp \in 0..MaxCount, kd \in 0..MaxCount, cp \in Role,
       live \in 0..MaxShells, blank \in 0..MaxShells, next \in Shell \cup {None} :
        LET g0 == GameState_add_all(GameState_new(MaxHealth),
                                    Copies(item, kp), Copies(item, kd))
            visible == [g0 EXCEPT !.current_player = cp]
            hidden == HiddenState(live, blank, next)
        IN /\ GameState_post_init(visible)
           /\ HiddenState_post_init(hidden)
           /\ state = MinMaxState(visible, hidden)
           /\ last = NoCall(state)

Next ==
    \/ \E target \in Role : Shoot(target)
    \/ \E item \in Item : Use(item)

Spec == Init /\ [][Next]_vars

(* The GameState operations on their own: any visible state within the     *)
(* bounds (healths in 0..max_health, either role to move, any modifiers),  *)
(* with no shell loaded.                                                   *)
InitGameState ==
    \E pitem \in Item, ditem \in Item, kp \in 0..MaxCount, kd \in 0..MaxCount,
       hp \in 0..MaxHealth, hd \in 0..MaxHealth, cp \in Role,
       saw \in BOOLEAN, cuffs \in BOOLEAN :
        LET g0 == GameState_add_all(GameState_new(MaxHealth),
                                    Copies(pitem, kp), Copies(ditem, kd))
            g1 == GameState_set_player_health(
                      GameState_set_player_health(g0, "PLAYER", hp), "DEALER", hd)
            visible == [g1 EXCEPT !.current_player = cp, !.saw_active = saw,
                                  !.handcuffs_active = cuffs]
        IN /\ GameState_post_init(visible)
           /\ state = MinMaxState(visible, HiddenState(0, 0, None))
           /\ last = NoCall(state)

NextGameState ==
    \/ \E shell \in Shell, target \in Role : GameStateShoot(shell, target)
    \/ EndTurn

SpecGameState == InitGameState /\ [][NextGameState]_vars

---------------------------------------------------------------------------
(* Helpers of the properties *)

RECURSIVE TotalProb(_)
TotalProb(states) ==
    IF states = <<>> THEN Frac(0, 1)
    ELSE FracAdd(states[1].p_state, TotalProb(Tail(states)))

PreVisible == last.pre.visible_state
PreHidden == last.pre.hidden_state
PreCurrent == PreVisible.current_player

\* The inventory of a PlayerState as a function of the item
Inventory(player_state) ==
    [item \in Item |-> PlayerState_getitem(player_state, item)]

---------------------------------------------------------------------------
(* Properties of the transition function (specification Spec) *)

(* C1: for every MinMaxState whose hidden state holds at least one shell   *)
(* and every action perform_action accepts on it, the probabilities of the *)
(* returned outcomes sum to exactly 1.                                     *)
C1_ProbabilitiesSumToOne ==
    (/\ last.op \in {"Shoot", "Use"}
     /\ ~last.raised
     /\ PreHidden.live_shells + PreHidden.blank_shells > 0)
        => FracEq(TotalProb(last.states), Frac(1, 1))

C1_Witness ==
    /\ last.op = "Shoot"
    /\ ~last.raised
    /\ PreHidden.live_shells = 1
    /\ PreHidden.blank_shells = 2
    /\ Len(last.states) = 2

\* The shell kind an outcome of shoot stands for: the kind whose count fell.
OutcomeShell(i) ==
    IF last.states[i].state.hidden_state.live_shells = PreHidden.live_shells - 1
    THEN "LIVE" ELSE "BLANK"

(* C2: when next_shell is a known kind K, shoot is deterministic: it       *)
(* returns the outcome for K with probability 1 and gives the other kind   *)
(* probability 0, whatever the remaining counts are.                       *)
C2_KnownNextShellDecidesShot ==
    (/\ last.op = "Shoot"
     /\ PreHidden.next_shell \in Shell)
        => /\ ~last.raised
           /\ \E i \in 1..Len(last.states) : OutcomeShell(i) = PreHidden.next_shell
           /\ \A i \in 1..Len(last.states) :
                  IF OutcomeShell(i) = PreHidden.next_shell
                  THEN FracEq(last.states[i].p_state, Frac(1, 1))
                  ELSE FracEq(last.states[i].p_state, Frac(0, 1))

ExpectedDraw(shell) ==
    LET L == PreHidden.live_shells
        B == PreHidden.blank_shells
    IN IF shell = "LIVE"
       THEN <<Frac(L, L + B), HiddenState(L - 1, B, None)>>
       ELSE <<Frac(B, L + B), HiddenState(L, B - 1, None)>>

\* The kinds with a positive count, in the order of list(Shell)
ExpectedShells ==
    (IF PreHidden.live_shells > 0 THEN <<"LIVE">> ELSE <<>>)
        \o (IF PreHidden.blank_shells > 0 THEN <<"BLANK">> ELSE <<>>)

(* C4: with live count L, blank count B and no known next shell, shoot     *)
(* returns exactly one outcome for each shell kind whose count is positive *)
(* (none when L = B = 0), with probability count/(L+B) and a hidden state  *)
(* in which that kind's count is one less; prob(K) equals count(K)/(L+B),  *)
(* is 0 whenever count(K) is 0, and prob(LIVE) + prob(BLANK) = 1 whenever  *)
(* L + B > 0.                                                              *)
C4_ShootDrawsEachKindLeft ==
    (/\ last.op = "Shoot"
     /\ PreHidden.next_shell = None)
        => LET L == PreHidden.live_shells
               B == PreHidden.blank_shells
               pLive == HiddenState_prob(PreHidden, "LIVE")
               pBlank == HiddenState_prob(PreHidden, "BLANK")
           IN /\ ~last.raised
              /\ Len(last.states) = Len(ExpectedShells)
              /\ \A i \in 1..Len(last.states) :
                     /\ FracEq(last.states[i].p_state, ExpectedDraw(ExpectedShells[i])[1])
                     /\ last.states[i].state.hidden_state
                            = ExpectedDraw(ExpectedShells[i])[2]
              /\ (L = 0 => pLive.num = 0 /\ pLive.den # 0)
              /\ (B = 0 => pBlank.num = 0 /\ pBlank.den # 0)
              /\ (L + B > 0 =>
                     /\ FracEq(pLive, Frac(L, L + B))
                     /\ FracEq(pBlank, Frac(B, L + B))
                     /\ FracEq(FracAdd(pLive, pBlank), Frac(1, 1)))

C4_Witness ==
    /\ last.op = "Shoot"
    /\ PreHidden.next_shell = None
    /\ PreHidden.live_shells = 2
    /\ PreHidden.blank_shells = 1
    /\ Len(last.states) = 2
    /\ state.hidden_state = HiddenState(2, 0, None)

(* C5: use_item(item) raises an error and returns no outcome whenever the  *)
(* current player's count of that item is zero, for each of the five       *)
(* items, even when the opponent holds the item.                           *)
C5_UseOfMissingItemRaises ==
    (/\ last.op = "Use"
     /\ PlayerState_getitem(GameState_getitem(PreVisible, PreCurrent), last.item) = 0)
        => /\ last.raised
           /\ last.states = <<>>
           /\ state = last.pre

C5_Witness ==
    /\ last.op = "Use"
    /\ last.item = "HANDCUFFS"
    /\ last.raised
    /\ PlayerState_getitem(GameState_getitem(PreVisible, PreCurrent), last.item) = 0
    /\ PlayerState_getitem(GameState_getitem(PreVisible, opponent(PreCurrent)),
                           last.item) > 0

(* C6: whenever use_item(item) succeeds, in every returned outcome the     *)
(* current player's count of that item is exactly one less than before,    *)
(* the current player's counts of the other four items are unchanged, and  *)
(* the opponent's inventory is unchanged.                                  *)
C6_UseTakesOneItemFromTheUser ==
    (/\ last.op = "Use"
     /\ ~last.raised)
        => \A i \in 1..Len(last.states) :
               LET post == last.states[i].state.visible_state
                   before == Inventory(GameState_getitem(PreVisible, PreCurrent))
                   after == Inventory(GameState_getitem(post, PreCurrent))
               IN /\ after = [before EXCEPT ![last.item] = @ - 1]
                  /\ Inventory(GameState_getitem(post, opponent(PreCurrent)))
                         = Inventory(GameState_getitem(PreVisible, opponent(PreCurrent)))

C6_Witness ==
    /\ last.op = "Use"
    /\ last.item = "SAW"
    /\ ~last.raised
    /\ Len(last.states) = 1
    /\ PreCurrent = "DEALER"
    /\ PreVisible.dealer_state.saw_count = 1
    /\ PreVisible.player_state.saw_count = 1
    /\ state.visible_state.dealer_state.saw_count = 0
    /\ state.visible_state.player_state.saw_count = 1

---------------------------------------------------------------------------
(* Properties of GameState.shoot and end_turn (specification SpecGameState) *)

\* A call of GameState.shoot that returned
Shot == last.op = "GameState.shoot" /\ ~last.raised

PostVisible == state.visible_state

Health(visible, role) == GameState_getitem(visible, role).health

\* The shots that would normally pass the turn
PassingShot == last.shell = "LIVE" \/ last.target # PreCurrent

(* C7: GameState.shoot(shell, target) changes health as follows: a blank   *)
(* shell changes nobody's health; a live shell reduces only the target's   *)
(* health, by 2 if saw_active was set and by 1 otherwise, clamped at 0;    *)
(* the health of the role that is not the target never changes.            *)
C7_ShotDamage ==
    last.op = "GameState.shoot" =>
        LET before == Health(PreVisible, last.target)
            damage == IF PreVisible.saw_active THEN 2 ELSE 1
        IN /\ ~last.raised
           /\ Health(PostVisible, opponent(last.target))
                  = Health(PreVisible, opponent(last.target))
           /\ last.shell = "BLANK" => Health(PostVisible, last.target) = before
           /\ last.shell = "LIVE" =>
                  Health(PostVisible, last.target)
                      = (IF before - damage < 0 THEN 0 ELSE before - damage)

C7_Witness ==
    /\ Shot
    /\ last.shell = "LIVE"
    /\ PreVisible.saw_active
    /\ last.target = PreCurrent
    /\ Health(PreVisible, last.target) = 1
    /\ Health(PostVisible, last.target) = 0

(* C8: after GameState.shoot, for every shell kind, every target and       *)
(* either current player, saw_active is False in the resulting state.      *)
C8_ShotResetsSaw == Shot => ~PostVisible.saw_active

C8_Witness ==
    /\ Shot
    /\ PreVisible.saw_active
    /\ last.shell = "BLANK"
    /\ last.target = PreCurrent
    /\ ~PostVisible.saw_active

(* C9: after GameState.shoot the turn stays with the current player        *)
(* exactly when handcuffs_active was set before the shot or the shell was  *)
(* a blank fired at the current player themself; in every other case       *)
(* current_player becomes the opponent.                                    *)
C9_ShotPassesTurn ==
    Shot =>
        IF PreVisible.handcuffs_active
               \/ (last.shell = "BLANK" /\ last.target = PreCurrent)
        THEN PostVisible.current_player = PreCurrent
        ELSE PostVisible.current_player = opponent(PreCurrent)

C9_Witness ==
    /\ Shot
    /\ ~PreVisible.handcuffs_active
    /\ last.shell = "LIVE"
    /\ last.target = PreCurrent
    /\ PostVisible.current_player = opponent(PreCurrent)

(* C10: an active handcuffs effect cancels exactly one turn pass: shoot    *)
(* clears handcuffs_active on every shot that would normally pass the turn *)
(* (any live shell, or a blank at the opponent), and a blank fired at      *)
(* oneself leaves handcuffs_active exactly as it was; end_turn always      *)
(* returns a state with handcuffs_active False.                            *)
C10_HandcuffsCancelOnePass ==
    /\ (Shot /\ PassingShot) => ~PostVisible.handcuffs_active
    /\ (Shot /\ PassingShot /\ PreVisible.handcuffs_active)
           => PostVisible.current_player = PreCurrent
    /\ (Shot /\ ~PassingShot)
           => PostVisible.handcuffs_active = PreVisible.handcuffs_active
    /\ last.op = "GameState.end_turn"
           => ~last.raised /\ ~PostVisible.handcuffs_active

C10_Witness ==
    /\ Shot
    /\ PreVisible.handcuffs_active
    /\ last.shell = "BLANK"
    /\ last.target = opponent(PreCurrent)
    /\ ~PostVisible.handcuffs_active
    /\ PostVisible.current_player = PreCurrent

---------------------------------------------------------------------------
(* The move enumerator list_moves *)

\* Faulty variant: the forced heal is left out
list_moves_without_forced_heal(mstate) ==
    <<ShootAction("PLAYER"), ShootAction("DEALER")>>

\* Faulty variant: glass is offered whether or not the next shell is known
list_moves_glass_always(mstate) ==
    LET current_player == mstate.visible_state.current_player
        player_state == GameState_getitem(mstate.visible_state, current_player)
        max_health == mstate.visible_state.max_health
    IN IF /\ PlayerState_contains(player_state, "CIGARETTES")
          /\ player_state.health < max_health
       THEN <<UseAction("CIGARETTES")>>
       ELSE [i \in 1..Len(RoleList) |-> ShootAction(RoleList[i])]
            \o (IF PlayerState_contains(player_state, "BEER")
                THEN <<UseAction("BEER")>> ELSE <<>>)
            \o (IF PlayerState_contains(player_state, "GLASS")
                THEN <<UseAction("GLASS")>> ELSE <<>>)
            \o (IF /\ PlayerState_contains(player_state, "HANDCUFFS")
                   /\ ~mstate.visible_state.handcuffs_active
                THEN <<UseAction("HANDCUFFS")>> ELSE <<>>)
            \o (IF /\ PlayerState_contains(player_state, "SAW")
                   /\ ~mstate.visible_state.saw_active
                THEN <<UseAction("SAW")>> ELSE <<>>)

\* Faulty variant: the item moves are enumerated before the shots
list_moves_items_first(mstate) ==
    LET current_player == mstate.visible_state.current_player
        player_state == GameState_getitem(mstate.visible_state, current_player)
        max_health == mstate.visible_state.max_health
    IN IF /\ PlayerState_contains(player_state, "CIGARETTES")
          /\ player_state.health < max_health
       THEN <<UseAction("CIGARETTES")>>
       ELSE (IF PlayerState_contains(player_state, "BEER")
             THEN <<UseAction("BEER")>> ELSE <<>>)
            \o (IF /\ PlayerState_contains(player_state, "GLASS")
                   /\ mstate.hidden_state.next_shell = None
                THEN <<UseAction("GLASS")>> ELSE <<>>)
            \o (IF /\ PlayerState_contains(player_state, "HANDCUFFS")
                   /\ ~mstate.visible_state.handcuffs_active
                THEN <<UseAction("HANDCUFFS")>> ELSE <<>>)
            \o (IF /\ PlayerState_contains(player_state, "SAW")
                   /\ ~mstate.visible_state.saw_active
                THEN <<UseAction("SAW")>> ELSE <<>>)
            \o [i \in 1..Len(RoleList) |-> ShootAction(RoleList[i])]

\* Faulty variant: the items are looked up in the inventory of the opponent
list_moves_of_opponent(mstate) ==
    LET current_player == mstate.visible_state.current_player
        player_state == GameState_getitem(mstate.visible_state,
                                          opponent(current_player))
        max_health == mstate.visible_state.max_health
    IN IF /\ PlayerState_contains(player_state, "CIGARETTES")
          /\ player_state.health < max_health
       THEN <<UseAction("CIGARETTES")>>
       ELSE [i \in 1..Len(RoleList) |-> ShootAction(RoleList[i])]
            \o (IF PlayerState_contains(player_state, "BEER")
                THEN <<UseAction("BEER")>> ELSE <<>>)
            \o (IF /\ PlayerState_contains(player_state, "GLASS")
                   /\ mstate.hidden_state.next_shell = None
                THEN <<UseAction("GLASS")>> ELSE <<>>)
            \o (IF /\ PlayerState_contains(player_state, "HANDCUFFS")
                   /\ ~mstate.visible_state.handcuffs_active
                THEN <<UseAction("HANDCUFFS")>> ELSE <<>>)
            \o (IF /\ PlayerState_contains(player_state, "SAW")
                   /\ ~mstate.visible_state.saw_active
                THEN <<UseAction("SAW")>> ELSE <<>>)

list_moves(mstate) ==
    LET current_player == mstate.visible_state.current_player
        player_state == GameState_getitem(mstate.visible_state, current_player)
        max_health == mstate.visible_state.max_health
    IN IF /\ PlayerState_contains(player_state, "CIGARETTES")
          /\ player_state.health < max_health
       THEN <<UseAction("CIGARETTES")>>
       ELSE [i \in 1..Len(RoleList) |-> ShootAction(RoleList[i])]
            \o (IF PlayerState_contains(player_state, "BEER")
                THEN <<UseAction("BEER")>> ELSE <<>>)
            \o (IF /\ PlayerState_contains(player_state, "GLASS")
                   /\ mstate.hidden_state.next_shell = None
                THEN <<UseAction("GLASS")>> ELSE <<>>)
            \o (IF /\ PlayerState_contains(player_state, "HANDCUFFS")
                   /\ ~mstate.visible_state.handcuffs_active
                THEN <<UseAction("HANDCUFFS")>> ELSE <<>>)
            \o (IF /\ PlayerState_contains(player_state, "SAW")
                   /\ ~mstate.visible_state.saw_active
                THEN <<UseAction("SAW")>> ELSE <<>>)

\* list_moves(state) called on the current state; the call is recorded with
\* the list it returned.
ListMoves ==
    /\ last' = [op |-> "list_moves", pre |-> state, moves |-> list_moves(state)]
    /\ state' = state

\* The items [GLASS] * count[GLASS] + [CIGARETTES] * count[CIGARETTES] + ...
ItemsOf(count) ==
    Copies("GLASS", count["GLASS"]) \o Copies("CIGARETTES", count["CIGARETTES"])
    \o Copies("BEER", count["BEER"]) \o Copies("SAW", count["SAW"])
    \o Copies("HANDCUFFS", count["HANDCUFFS"])

(* The states list_moves is applied to: the player to move holds any       *)
(* number up to MaxCount of each kind of item and has any health up to     *)
(* max_health, the other player holds nothing, any modifiers, any valid    *)
(* HiddenState with at most one blank shell.                               *)
InitMoves ==
    \E count \in [Item -> 0..MaxCount], cp \in Role, health \in 0..MaxHealth,
       saw \in BOOLEAN, cuffs \in BOOLEAN,
       live \in 0..MaxShells, blank \in 0..1, next \in Shell \cup {None} :
        LET g0 == IF cp = "PLAYER"
                  THEN GameState_add_all(GameState_new(MaxHealth), ItemsOf(count), <<>>)
                  ELSE GameState_add_all(GameState_new(MaxHealth), <<>>, ItemsOf(count))
            g1 == GameState_set_player_health(g0, cp, health)
            visible == [g1 EXCEPT !.current_player = cp, !.saw_active = saw,
                                  !.handcuffs_active = cuffs]
            hidden == HiddenState(live, blank, next)
        IN /\ GameState_post_init(visible)
           /\ HiddenState_post_init(hidden)
           /\ state = MinMaxState(visible, hidden)
           /\ last = NoCall(state)

NextMoves == ListMoves

SpecMoves == InitMoves /\ [][NextMoves]_vars

---------------------------------------------------------------------------
(* Properties of the move enumerator (specification SpecMoves) *)

Listed == last.op = "list_moves"

\* The player to move in the state list_moves was called on
PreMover == GameState_getitem(PreVisible, PreCurrent)

ForcedHeal ==
    /\ PlayerState_getitem(PreMover, "CIGARETTES") >= 1
    /\ PreMover.health < PreVisible.max_health

\* The set of the moves returned, and whether none is returned twice
MovesListed == {last.moves[i] : i \in 1..Len(last.moves)}
NoMoveTwice == Cardinality(MovesListed) = Len(last.moves)

\* The move when the condition holds, nothing otherwise
MoveIff(move, condition) == IF condition THEN {move} ELSE {}

(* C11: whenever the player to move holds at least one cigarettes item and *)
(* has health below max_health, list_moves returns exactly                 *)
(* [Use(CIGARETTES)], whatever the shells, the other items held and the    *)
(* modifier flags are.                                                     *)
C11_ForcedHeal ==
    (Listed /\ ForcedHeal) => last.moves = <<UseAction("CIGARETTES")>>

C11_Witness ==
    /\ Listed
    /\ ForcedHeal
    /\ PlayerState_getitem(PreMover, "BEER") >= 1
    /\ PreVisible.saw_active
    /\ PreHidden.live_shells >= 1
    /\ last.moves = <<UseAction("CIGARETTES")>>

(* C12: when the forced heal does not apply, list_moves returns both       *)
(* shots and, of the item moves, Use(BEER) iff beer is held, Use(GLASS)    *)
(* iff glass is held and next_shell is unknown, Use(HANDCUFFS) iff         *)
(* handcuffs are held and handcuffs_active is False, Use(SAW) iff a saw is *)
(* held and saw_active is False, and nothing else; so the list is never    *)
(* empty for a state with both healths above 0 and a shell loaded.         *)
C12_MovesListed ==
    /\ (Listed /\ ~ForcedHeal) =>
          /\ NoMoveTwice
          /\ MovesListed =
                {ShootAction("PLAYER"), ShootAction("DEALER")}
                \cup MoveIff(UseAction("BEER"),
                             PlayerState_getitem(PreMover, "BEER") >= 1)
                \cup MoveIff(UseAction("GLASS"),
                             /\ PlayerState_getitem(PreMover, "GLASS") >= 1
                             /\ PreHidden.next_shell = None)
                \cup MoveIff(UseAction("HANDCUFFS"),
                             /\ PlayerState_getitem(PreMover, "HANDCUFFS") >= 1
                             /\ ~PreVisible.handcuffs_active)
                \cup MoveIff(UseAction("SAW"),
                             /\ PlayerState_getitem(PreMover, "SAW") >= 1
                             /\ ~PreVisible.saw_active)
    /\ (/\ Listed
        /\ PreVisible.player_state.health > 0
        /\ PreVisible.dealer_state.health > 0
        /\ PreHidden.live_shells + PreHidden.blank_shells >= 1)
          => last.moves # <<>>

C12_Witness ==
    /\ Listed
    /\ ~ForcedHeal
    /\ PlayerState_getitem(PreMover, "CIGARETTES") >= 1
    /\ PlayerState_getitem(PreMover, "GLASS") >= 1
    /\ PreHidden.next_shell # None
    /\ PlayerState_getitem(PreMover, "SAW") >= 1
    /\ ~PreVisible.saw_active
    /\ UseAction("SAW") \in MovesListed
    /\ UseAction("GLASS") \notin MovesListed
    /\ UseAction("CIGARETTES") \notin MovesListed

---------------------------------------------------------------------------
(* The search: MoveOption, p_win_sample, pick_move and score_move.  Win    *)
(* probabilities are fractions in lowest terms, so that equal floats are   *)
(* equal values; rounding of the float arithmetic is not modelled.         *)

RECURSIVE Gcd(_, _)
Gcd(a, b) == IF b = 0 THEN a ELSE Gcd(b, a % b)

FracNorm(a) == LET g == Gcd(a.num, a.den) IN Frac(a.num \div g, a.den \div g)
FracMul(a, b) == FracNorm(Frac(a.num * b.num, a.den * b.den))
FracLess(a, b) == a.num * b.den < b.num * a.den

\* sum(...) of a sequence of fractions, from 0 and from the left
RECURSIVE FracSum(_)
FracSum(fracs) ==
    IF fracs = <<>> THEN Frac(0, 1)
    ELSE FracNorm(FracAdd(FracSum(SubSeq(fracs, 1, Len(fracs) - 1)),
                          fracs[Len(fracs)]))

\* The trials one call of p_win_sample plays (1000 in the source)
Trials == 1

MoveOption(p_win, move) == [p_win |-> p_win, move |-> move]

\* The move None of a MoveOption, written as an action of no kind
NoMove == [kind |-> None, target |-> None, item |-> None]

(* p_win_sample(player, dealer, player_next, trials) plays trials games of *)
(* coin flips with random.choice and returns wins / trials.  Any number of *)
(* the trials can be won, so the value is a random draw: draws gives, for  *)
(* the arguments of a call, the number of trials that call won (calls     *)
(* with equal arguments within one evaluation are given one draw, and a    *)
(* call draws has no entry for wins no trial).                             *)
p_win_sample(draws, player, dealer, player_next) ==
    LET args == <<player, dealer, player_next>>
        wins == IF args \in DOMAIN draws THEN draws[args] ELSE 0
    IN FracNorm(Frac(wins, Trials))

\* Faulty variant: on equal p_win the later option replaces the earlier one
RECURSIVE max_last_wins(_)
max_last_wins(options) ==
    IF Len(options) = 1 THEN options[1]
    ELSE LET best == max_last_wins(SubSeq(options, 1, Len(options) - 1))
             item == options[Len(options)]
         IN IF ~FracLess(item.p_win, best.p_win) THEN item ELSE best

(* max(options) and min(options) over MoveOption, which orders by p_win    *)
(* alone (move has compare=False): the scan keeps the first option and     *)
(* replaces it only by a strictly greater (smaller) one.                   *)
RECURSIVE max(_)
max(options) ==
    IF Len(options) = 1 THEN options[1]
    ELSE LET best == max(SubSeq(options, 1, Len(options) - 1))
             item == options[Len(options)]
         IN IF FracLess(best.p_win, item.p_win) THEN item ELSE best

\* Faulty variant: the scan keeps the greatest option
RECURSIVE min_keeps_greatest(_)
min_keeps_greatest(options) ==
    IF Len(options) = 1 THEN options[1]
    ELSE LET best == min_keeps_greatest(SubSeq(options, 1, Len(options) - 1))
             item == options[Len(options)]
         IN IF FracLess(best.p_win, item.p_win) THEN item ELSE best

RECURSIVE min(_)
min(options) ==
    IF Len(options) = 1 THEN options[1]
    ELSE LET best == min(SubSeq(options, 1, Len(options) - 1))
             item == options[Len(options)]
         IN IF FracLess(item.p_win, best.p_win) THEN item ELSE best

(* What an evaluation of pick_move or score_move yields: the MoveOption    *)
(* (p_win, move), whether it raised, the scored options, the number of     *)
(* pick_move calls made and the argument triples p_win_sample was called   *)
(* with.                                                                   *)
Evaluation(p_win, move, raised, options, nodes, calls) ==
    [p_win |-> p_win, move |-> move, raised |-> raised, options |-> options,
     nodes |-> nodes, calls |-> calls]

RECURSIVE SumNodes(_)
SumNodes(evals) ==
    IF evals = <<>> THEN 0 ELSE evals[1].nodes + SumNodes(Tail(evals))

AllCalls(evals) == UNION {evals[i].calls : i \in 1..Len(evals)}
AnyRaised(evals) == \E i \in 1..Len(evals) : evals[i].raised

RECURSIVE pick_move(_, _)

\* The element of a set of one element
TheOnly(S) == CHOOSE x \in S : TRUE

\* score_move once pick_move has returned, in picked, for every outcome
\* Faulty variant: the p_win of the outcomes are added without their weights
Scored_unweighted(move, result, picked) ==
    LET states == result.states
        p_win == FracSum([i \in 1..Len(states) |-> picked[i].p_win])
    IN Evaluation(p_win, move, result.raised \/ AnyRaised(picked), <<>>,
                  SumNodes(picked), AllCalls(picked))

Scored(move, result, picked) ==
    LET states == result.states
        p_win == FracSum([i \in 1..Len(states) |->
                             FracMul(states[i].p_state, picked[i].p_win)])
    IN Evaluation(p_win, move, result.raised \/ AnyRaised(picked), <<>>,
                  SumNodes(picked), AllCalls(picked))

score_move(mstate, move, draws) ==
    TheOnly({Scored(move, result,
                    [i \in 1..Len(result.states) |->
                        pick_move(result.states[i].state, draws)] \o <<>>) :
                result \in {MinMaxState_perform_action(mstate, move)}})

\* An evaluation that returns MoveOption(p_win, None) at once
Leaf(p_win, calls) == Evaluation(p_win, NoMove, FALSE, <<>>, 1, calls)

\* pick_move with no shell left: the value of p_win_sample and no move
pick_move_estimate(mstate, draws) ==
    LET visible_state == mstate.visible_state
        player_health == visible_state.player_state.health
        dealer_health == visible_state.player_state.health
        player_next == visible_state.current_player = "PLAYER"
        p_win == p_win_sample(draws, player_health, dealer_health, player_next)
    IN Leaf(p_win, {<<player_health, dealer_health, player_next>>})

\* pick_move once the options are scored: the best one for the player to
\* move is returned; max and min of no option raise.
Best(current_player, options) ==
    IF options = <<>> \/ AnyRaised(options)
    THEN Evaluation(Frac(0, 1), NoMove, TRUE, <<>>,
                    1 + SumNodes(options), AllCalls(options))
    ELSE LET best_move == IF current_player = "PLAYER"
                          THEN max(options) ELSE min(options)
         IN Evaluation(best_move.p_win, best_move.move, FALSE,
                       [i \in 1..Len(options) |->
                           MoveOption(options[i].p_win, options[i].move)],
                       1 + SumNodes(options), AllCalls(options))

\* pick_move past its base cases: the listed moves are scored
pick_move_search(mstate, draws) ==
    TheOnly({Best(mstate.visible_state.current_player,
                  [i \in 1..Len(moves) |->
                      score_move(mstate, moves[i], draws)] \o <<>>) :
                moves \in {list_moves(mstate)}})

\* Faulty variant: the dealer's health is tested before the player's
pick_move_dealer_first(mstate, draws) ==
    IF mstate.visible_state.dealer_state.health = 0
    THEN Leaf(Frac(1, 1), {})
    ELSE IF mstate.visible_state.player_state.health = 0
    THEN Leaf(Frac(0, 1), {})
    ELSE IF /\ mstate.hidden_state.blank_shells = 0
            /\ mstate.hidden_state.live_shells = 0
    THEN pick_move_estimate(mstate, draws)
    ELSE pick_move_search(mstate, draws)

\* Faulty variant: the dealer's health is not tested
pick_move_without_dealer_test(mstate, draws) ==
    IF mstate.visible_state.player_state.health = 0
    THEN Leaf(Frac(0, 1), {})
    ELSE IF /\ mstate.hidden_state.blank_shells = 0
            /\ mstate.hidden_state.live_shells = 0
    THEN pick_move_estimate(mstate, draws)
    ELSE pick_move_search(mstate, draws)

\* Faulty variant: the moves are scored even when no shell is left
pick_move_without_estimate(mstate, draws) ==
    IF mstate.visible_state.player_state.health = 0
    THEN Leaf(Frac(0, 1), {})
    ELSE IF mstate.visible_state.dealer_state.health = 0
    THEN Leaf(Frac(1, 1), {})
    ELSE pick_move_search(mstate, draws)

pick_move(mstate, draws) ==
    IF mstate.visible_state.player_state.health = 0
    THEN Leaf(Frac(0, 1), {})
    ELSE IF mstate.visible_state.dealer_state.health = 0
    THEN Leaf(Frac(1, 1), {})
    ELSE IF /\ mstate.hidden_state.blank_shells = 0
            /\ mstate.hidden_state.live_shells = 0
    THEN pick_move_estimate(mstate, draws)
    ELSE pick_move_search(mstate, draws)

\* The argument triples p_win_sample is called with while pick_move(mstate)
\* is evaluated; they do not depend on the values drawn.
SampleCalls(mstate) == pick_move(mstate, <<>>).calls

(* pick_move(state) called for the first time: nothing is cached, so every *)
(* call of p_win_sample it makes draws its number of wins.  The call is    *)
(* recorded with the draws and with what it returned.  pick_move is        *)
(* cached; a later call in the same run returns the stored MoveOption and  *)
(* changes nothing.                                                        *)
PickMove ==
    /\ last.op = "none"
    /\ \E draws \in [SampleCalls(state) -> 0..Trials] :
          /\ last' = [op |-> "pick_move", pre |-> state, draws |-> draws,
                      result |-> pick_move(state, draws)]
          /\ state' = state

(* pick_move(state) evaluated once more with an empty cache (in another    *)
(* run of the program, or after the cache was cleared): p_win_sample draws *)
(* again.  The call is recorded with what the first evaluation returned.   *)
PickMoveAgain ==
    /\ last.op = "pick_move"
    /\ \E draws \in [SampleCalls(state) -> 0..Trials] :
          /\ last' = [op |-> "pick_move again", pre |-> state, draws |-> draws,
                      result |-> pick_move(state, draws), first |-> last.result]
          /\ state' = state

\* The max_health of the games searched
SearchHealth == 1

(* The states pick_move is applied to: a game of max_health SearchHealth   *)
(* in which both players hold one item of a kind or nothing, the healths   *)
(* set to any values up to max_health, either role to move and any         *)
(* HiddenState of at most MaxShells shells whose next shell is not known   *)
(* (it becomes known within the search, by the glass).                     *)
InitSearch ==
    \E items \in {<<>>} \cup {<<item>> : item \in Item},
       hp \in 0..SearchHealth, hd \in 0..SearchHealth, cp \in Role,
       live \in 0..MaxShells, blank \in 0..MaxShells :
        LET g0 == GameState_add_all(GameState_new(SearchHealth), items, items)
            g1 == GameState_set_player_health(
                      GameState_set_player_health(g0, "PLAYER", hp), "DEALER", hd)
            visible == [g1 EXCEPT !.current_player = cp]
            hidden == HiddenState(live, blank, None)
        IN /\ live + blank <= MaxShells
           /\ GameState_post_init(visible)
           /\ HiddenState_post_init(hidden)
           /\ state = MinMaxState(visible, hidden)
           /\ last = NoCall(state)

NextSearch == PickMove

SpecSearch == InitSearch /\ [][NextSearch]_vars

\* The health of both sides in the scenario of a game of ten lives
ScenarioHealth == 10

(* Runs of the program on a game of max_health ScenarioHealth without      *)
(* items: any positive healths, either role to move, at most one shell     *)
(* loaded.  Each state is evaluated in a first run and again in a second.  *)
InitRuns ==
    \E hp \in 1..ScenarioHealth, hd \in 1..ScenarioHealth, cp \in Role,
       live \in 0..1, blank \in 0..1, next \in Shell \cup {None} :
        LET g0 == GameState_new(ScenarioHealth)
            g1 == GameState_set_player_health(
                      GameState_set_player_health(g0, "PLAYER", hp), "DEALER", hd)
            visible == [g1 EXCEPT !.current_player = cp]
            hidden == HiddenState(live, blank, next)
        IN /\ live + blank <= 1
           /\ GameState_post_init(visible)
           /\ HiddenState_post_init(hidden)
           /\ state = MinMaxState(visible, hidden)
           /\ last = NoCall(state)

NextRuns == PickMove \/ PickMoveAgain

SpecRuns == InitRuns /\ [][NextRuns]_vars

---------------------------------------------------------------------------
(* Properties of the search (specification SpecSearch) *)

Picked == last.op = "pick_move"

\* The MoveOption returned: its p_win is the fraction p and its move is move
Returned(p, move) ==
    /\ ~last.result.raised
    /\ last.result.p_win = p
    /\ last.result.move = move

C14_PlayerDeadIsLoss ==
    (Picked /\ PreVisible.player_state.health = 0)
        => Returned(Frac(0, 1), NoMove)

C14_Witness ==
    /\ Picked
    /\ PreVisible.player_state.health = 0
    /\ PreVisible.dealer_state.health = 0
    /\ PreCurrent = "DEALER"
    /\ PreHidden.live_shells >= 1
    /\ Returned(Frac(0, 1), NoMove)

\* No shell is loaded in the state pick_move was called on
NoShells == PreHidden.live_shells = 0 /\ PreHidden.blank_shells = 0

BothAlive ==
    PreVisible.player_state.health # 0 /\ PreVisible.dealer_state.health # 0

(* C15: when both shell counts are zero and both healths are nonzero,      *)
(* pick_move returns the value of the terminal estimator with move None;   *)
(* it enumerates no move and evaluates no successor state.                 *)
C15_NoShellsIsEstimated ==
    (Picked /\ NoShells /\ BothAlive) =>
        /\ ~last.result.raised
        /\ last.result.move = NoMove
        /\ last.result.options = <<>>
        /\ last.result.nodes = 1
        /\ \E args \in last.result.calls :
              /\ last.result.calls = {args}
              /\ FracEq(last.result.p_win, Frac(last.draws[args], Trials))

C15_Witness ==
    /\ Picked
    /\ NoShells
    /\ BothAlive
    /\ PlayerState_total_items(PreMover) >= 1
    /\ last.result.move = NoMove
    /\ last.result.p_win = Frac(1, 1)

\* The sum, over the outcomes in states, of p_state times the win
\* probability pick_move returns for the outcome's state
RECURSIVE ExpectedWin(_, _)
ExpectedWin(states, draws) ==
    IF states = <<>> THEN Frac(0, 1)
    ELSE TheOnly({FracAdd(Frac(states[1].p_state.num * p.num,
                               states[1].p_state.den * p.den), rest) :
                     p \in {pick_move(states[1].state, draws).p_win},
                     rest \in {ExpectedWin(Tail(states), draws)}})

\* Option i is at least as good for the player to move as option j
AsGoodAs(options, i, j) ==
    IF PreCurrent = "PLAYER"
    THEN ~FracLess(options[i].p_win, options[j].p_win)
    ELSE ~FracLess(options[j].p_win, options[i].p_win)

\* The options no other option beats
BestOptions(options) ==
    {i \in 1..Len(options) : \A j \in 1..Len(options) : AsGoodAs(options, i, j)}

Searched == Picked /\ BothAlive /\ ~NoShells

(* C16: in every state with both healths nonzero and at least one shell,   *)
(* pick_move scores each legal move as the sum over the move's outcomes of *)
(* p_state times the win probability pick_move returns for the outcome,    *)
(* and returns, with its score, a move of maximum score on the PLAYER's    *)
(* turn and a move of minimum score on the DEALER's turn.                  *)
C16_ScoresAndBestMove ==
    Searched =>
        LET moves == list_moves(last.pre)
            options == last.result.options
        IN /\ ~last.result.raised
           /\ Len(options) = Len(moves)
           /\ \A i \in 1..Len(moves) :
                 /\ options[i].move = moves[i]
                 /\ FracEq(options[i].p_win,
                           ExpectedWin(MinMaxState_perform_action(
                                           last.pre, moves[i]).states,
                                       last.draws))
           /\ \E i \in BestOptions(options) :
                 /\ last.result.move = options[i].move
                 /\ last.result.p_win = options[i].p_win

C16_Witness ==
    /\ Searched
    /\ PreCurrent = "DEALER"
    /\ PreHidden.live_shells >= 1
    /\ PreHidden.blank_shells >= 1
    /\ Len(last.result.options) >= 3
    /\ \E i \in 1..Len(last.result.options) :
          FracLess(last.result.p_win, last.result.options[i].p_win)
    /\ \E i \in 1..Len(last.result.options) :
          last.result.options[i].p_win.den > 1

(* C17: when several legal moves share the best score, pick_move returns   *)
(* the one list_moves enumerates first, on the PLAYER's turn (maximum) and *)
(* on the DEALER's turn (minimum) alike.                                   *)
C17_FirstOfTheBest ==
    Searched =>
        LET options == last.result.options
            best == BestOptions(options)
        IN /\ best # {}
           /\ \E first \in best :
                 /\ \A i \in best : first <= i
                 /\ last.result.move = list_moves(last.pre)[first]

C17_Witness ==
    /\ Searched
    /\ PreCurrent = "PLAYER"
    /\ Cardinality(BestOptions(last.result.options)) >= 2
    /\ Cardinality(BestOptions(last.result.options)) < Len(last.result.options)
    /\ 1 \notin BestOptions(last.result.options)
    /\ last.result.move = ShootAction("DEALER")

---------------------------------------------------------------------------
(* Properties of the search over several runs (specification SpecRuns) *)

PickedAgain == last.op = "pick_move again"

(* C18: pick_move is referentially transparent: two evaluations of         *)
(* pick_move on equal states, with or without a warm cache and in the same *)
(* or in different runs, return the same win probability and the same      *)
(* move; no randomness influences the result.                              *)
C18_SameResultInEveryRun ==
    PickedAgain =>
        /\ last.result.p_win = last.first.p_win
        /\ last.result.move = last.first.move

\* Health ScenarioHealth for both sides, PLAYER to move, no items, one live
\* shell and no blank
ScenarioState ==
    MinMaxState(GameState_new(ScenarioHealth), HiddenState(1, 0, None))

(* C19: with health 10 for both sides (max_health 10), PLAYER to move, no  *)
(* items on either side and one live shell and no blank loaded, pick_move  *)
(* returns the move Shoot(DEALER), not Shoot(PLAYER), with win probability *)
(* 1.0.                                                                    *)
C19_ShootsDealerAndWins ==
    (Picked /\ last.pre = ScenarioState)
        => Returned(Frac(1, 1), ShootAction("DEALER"))

---------------------------------------------------------------------------
(* The last shot of a game: both healths 1, one live shell and no blank    *)
(* loaded, the player to move holding any set of items and the other       *)
(* player none or one of each, any modifiers, either role to move, in a    *)
(* game of any max_health up to MaxHealth.                                 *)
InitEndgame ==
    \E held \in SUBSET Item, others \in {{}, Item}, cp \in Role,
       max_health \in 1..MaxHealth, saw \in BOOLEAN, cuffs \in BOOLEAN,
       next \in {None, "LIVE"} :
        LET mine == ItemsOf([item \in Item |-> IF item \in held THEN 1 ELSE 0])
            theirs == ItemsOf([item \in Item |-> IF item \in others THEN 1 ELSE 0])
            g0 == IF cp = "PLAYER"
                  THEN GameState_add_all(GameState_new(max_health), mine, theirs)
                  ELSE GameState_add_all(GameState_new(max_health), theirs, mine)
            g1 == GameState_set_player_health(
                      GameState_set_player_health(g0, "PLAYER", 1), "DEALER", 1)
            visible == [g1 EXCEPT !.current_player = cp, !.saw_active = saw,
                                  !.handcuffs_active = cuffs]
            hidden == HiddenState(1, 0, next)
        IN /\ GameState_post_init(visible)
           /\ HiddenState_post_init(hidden)
           /\ state = MinMaxState(visible, hidden)
           /\ last = NoCall(state)

NextEndgame == PickMove

SpecEndgame == InitEndgame /\ [][NextEndgame]_vars

---------------------------------------------------------------------------
(* Properties of the search on the last shot (specification SpecEndgame) *)

LastShot ==
    /\ Picked
    /\ PreHidden.live_shells = 1
    /\ PreHidden.blank_shells = 0
    /\ PreVisible.player_state.health = 1
    /\ PreVisible.dealer_state.health = 1
    /\ PlayerState_getitem(PreMover, "CIGARETTES") = 0

(* C20: for either role to move, when exactly one live shell and no blank  *)
(* is loaded, both healths are 1 and the mover holds no cigarettes,        *)
(* pick_move returns Shoot(the mover's opponent), whatever other items     *)
(* either side holds and whatever the modifier flags are.                  *)
C20_ShootsToEnd ==
    LastShot =>
        /\ ~last.result.raised
        /\ last.result.move = ShootAction(opponent(PreCurrent))

C20_Witness ==
    /\ LastShot
    /\ PreCurrent = "PLAYER"
    /\ PlayerState_getitem(PreMover, "BEER") >= 1
    /\ PlayerState_getitem(PreMover, "SAW") >= 1
    /\ PlayerState_getitem(PreVisible.dealer_state, "CIGARETTES") >= 1
    /\ PreVisible.handcuffs_active
    /\ \E i \in 1..Len(last.result.options) :
          /\ last.result.options[i].move = UseAction("BEER")
          /\ last.result.options[i].p_win = last.result.p_win
    /\ last.result.move = ShootAction("DEALER")

---------------------------------------------------------------------------
(* HiddenState.use on its own: any valid HiddenState (the visible state is  *)
(* a new game), drawn from again and again.  The call raises when           *)
(* __post_init__ rejects the value dataclasses.replace builds, and the      *)
(* receiver is then still the value held.                                   *)

HiddenStateUse(shell) ==
    LET new == HiddenState_use(state.hidden_state, shell)
        raised == ~HiddenState_post_init(new)
    IN /\ last' = Call("HiddenState.use", [target |-> None, item |-> None], shell,
                       state, [raised |-> raised, states |-> <<>>])
       /\ state' = IF raised THEN state ELSE [state EXCEPT !.hidden_state = new]

InitHidden ==
    \E cp \in Role, live \in 0..MaxShells, blank \in 0..MaxShells,
       next \in Shell \cup {None} :
        LET visible == [GameState_new(MaxHealth) EXCEPT !.current_player = cp]
            hidden == HiddenState(live, blank, next)
        IN /\ HiddenState_post_init(hidden)
           /\ state = MinMaxState(visible, hidden)
           /\ last = NoCall(state)

NextHidden == \E shell \in Shell : HiddenStateUse(shell)

SpecHidden == InitHidden /\ [][NextHidden]_vars

Drew == last.op = "HiddenState.use"

OtherShell(shell) == IF shell = "LIVE" THEN "BLANK" ELSE "LIVE"

\* C21: HiddenState.use(K) raises when count(K) is 0; when count(K) = n > 0
\* it returns a state with count(K) = n - 1, the count of the other kind
\* unchanged and next_shell None, whatever next_shell was before.
C21_UseDrawsOrFails ==
    Drew =>
        LET n == HiddenState_count(PreHidden, last.shell)
            other == OtherShell(last.shell)
        IN IF n = 0
           THEN last.raised /\ state = last.pre
           ELSE /\ ~last.raised
                /\ HiddenState_count(state.hidden_state, last.shell) = n - 1
                /\ HiddenState_count(state.hidden_state, other)
                       = HiddenState_count(PreHidden, other)
                /\ state.hidden_state.next_shell = None
                /\ state.visible_state = PreVisible

\* a draw of a kind whose count is 0 from a state whose next shell is known
C21_Witness ==
    /\ Drew /\ last.raised
    /\ HiddenState_count(PreHidden, last.shell) = 0
    /\ PreHidden.next_shell # None

---------------------------------------------------------------------------
(* data.py: Feedback.  None, the feedback of an action that did nothing,   *)
(* is written NoFeedback.                                                   *)

Feedback(kind, target, shell, amount, item) ==
    [kind |-> kind, target |-> target, shell |-> shell, amount |-> amount,
     item |-> item]

Hit(target) == Feedback("Hit", target, None, None, None)
Miss == Feedback("Miss", None, None, None, None)
See(shell) == Feedback("See", None, shell, None, None)
Heal(amount) == Feedback("Heal", None, None, amount, None)
Used(item) == Feedback("Used", None, None, None, item)
NoFeedback == Feedback(None, None, None, None, None)

---------------------------------------------------------------------------
(* buckshotroulette.py: GameStateManager.  The visible state is the        *)
(* GameState of data.py, its max_health the initial health the manager was *)
(* built with; an inventory is the item counts of PlayerState.  shells is  *)
(* a list that is drawn from at its end.  A result is the pair the method  *)
(* returns, or raised when it raises (IndexError on an empty list,         *)
(* ValueError when GameState.__post_init__ rejects the replaced state).    *)

FullGameState(visible_state, shells) ==
    [visible_state |-> visible_state, shells |-> shells]

Result(feedback, full) == [raised |-> FALSE, feedback |-> feedback, state |-> full]
Raised(full) == [raised |-> TRUE, feedback |-> NoFeedback, state |-> full]

GameStateManager_new(initial_health) ==
    FullGameState(GameState_new(initial_health), <<>>)

PlayerStateManager_take_item(player_state, item) ==
    LET r == PlayerState_take_item(player_state, item)
    IN [taken |-> r.found, state |-> r.state]

GameStateManager_replace_player(full, role, player_state) ==
    [full EXCEPT !.visible_state = GameState_replace_player(@, player_state, role)]

GameStateManager_peek_shell(full) == full.shells[Len(full.shells)]

GameStateManager_pop_shell(full) ==
    [shell |-> full.shells[Len(full.shells)],
     state |-> [full EXCEPT !.shells = SubSeq(@, 1, Len(@) - 1)]]

GameStateManager_use_item(full, item) ==
    LET current_player == full.visible_state.current_player
        player_state == GameState_getitem(full.visible_state, current_player)
        took == PlayerStateManager_take_item(player_state, item)
        taken == GameStateManager_replace_player(full, current_player, took.state)
    IN IF ~took.taken THEN Result(NoFeedback, taken)
       ELSE CASE item = "GLASS" ->
                     IF full.shells = <<>> THEN Raised(full)
                     ELSE Result(See(GameStateManager_peek_shell(taken)), taken)
              [] item = "BEER" ->
                     IF full.shells = <<>> THEN Raised(full)
                     ELSE LET popped == GameStateManager_pop_shell(taken)
                          IN Result(See(popped.shell), popped.state)
              [] item = "CIGARETTES" ->
                     LET healed == [player_state EXCEPT !.health = @ + 1]
                         new == GameStateManager_replace_player(
                                    taken, current_player, healed)
                     IN IF GameState_post_init(new.visible_state)
                        THEN Result(Heal(1), new) ELSE Raised(full)
              [] item = "SAW" ->
                     Result(Used(item), [taken EXCEPT !.visible_state.saw_active = TRUE])
              [] item = "HANDCUFFS" ->
                     Result(Used(item),
                            [taken EXCEPT !.visible_state.handcuffs_active = TRUE])

GameStateManager_shoot(full, target) ==
    IF full.shells = <<>> THEN Raised(full)
    ELSE LET popped == GameStateManager_pop_shell(full)
             shell == popped.shell
             target_state == GameState_getitem(popped.state.visible_state, target)
             damage == IF popped.state.visible_state.saw_active THEN 2 ELSE 1
             handcuff == popped.state.visible_state.handcuffs_active
             uncuffed == [popped.state EXCEPT !.visible_state.handcuffs_active = FALSE]
             current_player == uncuffed.visible_state.current_player
         IN IF shell = "LIVE"
            THEN LET next_player == IF handcuff THEN current_player
                                    ELSE opponent(current_player)
                     hit == GameStateManager_replace_player(uncuffed, target,
                                [target_state EXCEPT !.health = @ - damage])
                 IN Result(Hit(target),
                           [hit EXCEPT !.visible_state.current_player = next_player])
            ELSE LET next_player == IF target = current_player \/ handcuff
                                    THEN current_player
                                    ELSE opponent(current_player)
                 IN Result(Miss,
                           [uncuffed EXCEPT !.visible_state.current_player = next_player])

\* The orders random.shuffle can leave live LIVE and blank BLANK shells in
Shuffles(live, blank) ==
    {shells \in [1..(live + blank) -> Shell] :
        Cardinality({i \in 1..(live + blank) : shells[i] = "LIVE"}) = live}

\* Faulty variant: the counts are returned in the other order.
GameStateManager_reload_counts_swapped(full, live, blank, shells) ==
    [counts |-> <<blank, live>>,
     state |-> [full EXCEPT !.shells = shells,
                            !.visible_state.current_player = "PLAYER"]]

\* reload once random.randint has drawn live and blank and random.shuffle
\* has left the shells in the order shells
GameStateManager_reload(full, live, blank, shells) ==
    [counts |-> <<live, blank>>,
     state |-> [full EXCEPT !.shells = shells,
                            !.visible_state.current_player = "PLAYER"]]

---------------------------------------------------------------------------
(* minmaxagent.py: MinMaxAgent.  A method is given as the agent it leaves  *)
(* behind; when it raises, the agent is as it was before the call.         *)

MinMaxAgent(role, hidden_state, last_move) ==
    [role |-> role, _hidden_state |-> hidden_state, _last_move |-> last_move]

Updated(agent) == [raised |-> FALSE, agent |-> agent]
Failed(agent) == [raised |-> TRUE, agent |-> agent]

\* self._hidden_state = value, where building value may have raised
SetHiddenState(self, value) ==
    IF HiddenState_post_init(value)
    THEN Updated([self EXCEPT !._hidden_state = value])
    ELSE Failed(self)

MinMaxAgent_reset_shells(self, live, blank) ==
    SetHiddenState(self, HiddenState(live, blank, None))

MinMaxAgent_init(role) ==
    MinMaxAgent_reset_shells(
        MinMaxAgent(role, HiddenState(0, 0, None), NoMove), 0, 0).agent

\* Faulty variant: a count of 0 is left at 0 instead of raising.
MinMaxAgent_use_shell_clamped(self, shell) ==
    IF HiddenState_count(self._hidden_state, shell) = 0
    THEN Updated([self EXCEPT !._hidden_state.next_shell = None])
    ELSE SetHiddenState(self, HiddenState_use(self._hidden_state, shell))

MinMaxAgent_use_shell(self, shell) ==
    SetHiddenState(self, HiddenState_use(self._hidden_state, shell))

MinMaxAgent_set_next_shell(self, shell) ==
    SetHiddenState(self, [self._hidden_state EXCEPT !.next_shell = shell])

MinMaxAgent_receive_feedback(self, feedback) ==
    CASE feedback.kind = "Hit" -> MinMaxAgent_use_shell(self, "LIVE")
      [] feedback.kind = "Miss" -> MinMaxAgent_use_shell(self, "BLANK")
      [] feedback.kind = "See" ->
             IF self._last_move = UseAction("BEER")
             THEN MinMaxAgent_use_shell(self, feedback.shell)
             ELSE IF self._last_move = UseAction("GLASS")
             THEN MinMaxAgent_set_next_shell(self, feedback.shell)
             ELSE Updated(self)
      [] OTHER -> Updated(self)

MinMaxAgent_opponent_move(self, action, feedback) ==
    CASE feedback.kind = "Hit" -> MinMaxAgent_use_shell(self, "LIVE")
      [] feedback.kind = "Miss" -> MinMaxAgent_use_shell(self, "BLANK")
      [] feedback.kind = "See" -> MinMaxAgent_use_shell(self, feedback.shell)
      [] OTHER -> Updated(self)

(* The moves pick_move(known_state).move can be: None in the three cases   *)
(* that return without a search, else the move of one of the options       *)
(* list_moves supplies.  Which option is the best one depends on the       *)
(* values p_win_sample draws at the ends of the search, so each option is  *)
(* taken to be possible.                                                    *)
BestMoves(known_state) ==
    IF \/ known_state.visible_state.player_state.health = 0
       \/ known_state.visible_state.dealer_state.health = 0
       \/ /\ known_state.hidden_state.blank_shells = 0
          /\ known_state.hidden_state.live_shells = 0
    THEN {NoMove}
    ELSE {list_moves(known_state)[i] : i \in 1..Len(list_moves(known_state))}

\* get_move once pick_move(known_state).move is best_move
\* Faulty variant: best_move is returned without the test for None.
MinMaxAgent_get_move_returns_none(self, visible, best_move) ==
    LET my_state == GameState_getitem(visible, self.role)
    IN IF my_state.health < visible.max_health
          /\ PlayerState_contains(my_state, "CIGARETTES")
       THEN [raised |-> FALSE, move |-> UseAction("CIGARETTES"), agent |-> self]
       ELSE [raised |-> FALSE, move |-> best_move,
             agent |-> [self EXCEPT !._last_move = best_move]]

MinMaxAgent_get_move(self, visible, best_move) ==
    LET my_state == GameState_getitem(visible, self.role)
    IN IF my_state.health < visible.max_health
          /\ PlayerState_contains(my_state, "CIGARETTES")
       THEN [raised |-> FALSE, move |-> UseAction("CIGARETTES"), agent |-> self]
       ELSE IF best_move = NoMove
       THEN [raised |-> TRUE, move |-> NoMove, agent |-> self]
       ELSE [raised |-> FALSE, move |-> best_move,
             agent |-> [self EXCEPT !._last_move = best_move]]

---------------------------------------------------------------------------
(* buckshotroulette.py: Game.  state is the Game: _state, _agents, and the *)
(* position of run with its local variables shooter, action and feedback.  *)
(* Both agents are MinMaxAgents.  pc is the call run makes next: "_reload", "get_move",    *)
(* "_perform_action", "receive_feedback", "opponent_move"; "return" when   *)
(* run has returned the winner, "raised" when a call has raised and run    *)
(* has passed the exception on.                                             *)

Game_winner(full) ==
    IF full.visible_state.dealer_state.health = 0 THEN "PLAYER"
    ELSE IF full.visible_state.player_state.health = 0 THEN "DEALER"
    ELSE None

\* the top of the loop of run: the test of while and the test of if
RunLoop(full) ==
    IF Game_winner(full) # None THEN "return"
    ELSE IF full.shells = <<>> THEN "_reload"
    ELSE "get_move"

Game(full, agents, pc) ==
    [_state |-> full, _agents |-> agents, pc |-> pc, shooter |-> None,
     action |-> NoMove, feedback |-> NoFeedback]

\* the call made last, and the agents as they were before it
Step(op) == [op |-> op, pre |-> state._agents]

\* The shells a reload may draw of each kind (4 in the source)
max_shells == 2

\* Health below 0 is followed down to -Overkill
Overkill == 1

\* for agent in self._agents.values(): agent.reset_shells(*counts)
Reload_agents(agents, live, blank) ==
    [role \in Role |-> MinMaxAgent_reset_shells(agents[role], live, blank).agent]

\* if not self._state.shells: self._reload()
Reload ==
    /\ state.pc = "_reload"
    /\ \E live \in 1..max_shells, blank \in 1..max_shells :
         \E shells \in Shuffles(live, blank) :
            LET r == GameStateManager_reload(state._state, live, blank, shells \o <<>>)
            IN state' = [state EXCEPT !._state = r.state,
                             !._agents = Reload_agents(@, r.counts[1], r.counts[2]),
                             !.pc = "get_move"]
    /\ last' = Step("_reload")

\* action = shooter.get_move(self._state.visible_state)
GetMove ==
    /\ state.pc = "get_move"
    /\ \A role \in Role :
           GameState_getitem(state._state.visible_state, role).health >= -Overkill
    /\ LET current_player == state._state.visible_state.current_player
           shooter == state._agents[current_player]
           known_state == MinMaxState(state._state.visible_state,
                                      shooter._hidden_state)
       IN \E best_move \in BestMoves(known_state) :
            LET r == MinMaxAgent_get_move(shooter, state._state.visible_state,
                                          best_move)
            IN state' = [state EXCEPT !.shooter = current_player,
                             !.action = r.move,
                             !._agents[current_player] = r.agent,
                             !.pc = IF r.raised THEN "raised" ELSE "_perform_action"]
    /\ last' = Step("get_move")

Game_perform_action(full, action) ==
    IF action.kind = "Shoot" THEN GameStateManager_shoot(full, action.target)
    ELSE GameStateManager_use_item(full, action.item)

\* feedback = self._perform_action(action)
GamePerformAction ==
    /\ state.pc = "_perform_action"
    /\ LET r == Game_perform_action(state._state, state.action)
       IN state' = [state EXCEPT !._state = r.state, !.feedback = r.feedback,
                        !.pc = IF r.raised THEN "raised" ELSE "receive_feedback"]
    /\ last' = Step("_perform_action")

\* shooter.receive_feedback(feedback)
ReceiveFeedback ==
    /\ state.pc = "receive_feedback"
    /\ LET r == MinMaxAgent_receive_feedback(state._agents[state.shooter],
                                             state.feedback)
       IN state' = [state EXCEPT !._agents[state.shooter] = r.agent,
                        !.pc = IF r.raised THEN "raised" ELSE "opponent_move"]
    /\ last' = Step("receive_feedback")

\* opponent.opponent_move(action, feedback), then the top of the loop
OpponentMove ==
    /\ state.pc = "opponent_move"
    /\ LET r == MinMaxAgent_opponent_move(state._agents[opponent(state.shooter)],
                                          state.action, state.feedback)
       IN state' = [state EXCEPT !._agents[opponent(state.shooter)] = r.agent,
                        !.pc = IF r.raised THEN "raised" ELSE RunLoop(state._state)]
    /\ last' = Step("opponent_move")

(* Game(dealer, player, initial_health) with two new MinMaxAgents, about   *)
(* to run.  The game is also started with items in the inventories, as the *)
(* tests of the manager start it.                                          *)
InitGame ==
    \E item \in Item, k \in 0..MaxCount :
        LET new == GameStateManager_new(MaxHealth)
            full == [new EXCEPT !.visible_state =
                        GameState_add_all(@, Copies(item, k), Copies(item, k))]
            agents == [role \in Role |-> MinMaxAgent_init(role)]
        IN /\ state = Game(full, agents, RunLoop(full))
           /\ last = Step("__init__")

NextGame ==
    \/ Reload
    \/ GetMove
    \/ GamePerformAction
    \/ ReceiveFeedback
    \/ OpponentMove

SpecGame == InitGame /\ [][NextGame]_vars

---------------------------------------------------------------------------
(* Claims about the game and the trackers of its agents (SpecGame)         *)

Tracker(role) == state._agents[role]._hidden_state
PreTracker(role) == last.pre[role]._hidden_state

CountShells(shells, shell) ==
    Cardinality({i \in 1..Len(shells) : shells[i] = shell})

Loaded(shell) == CountShells(state._state.shells, shell)

\* hidden after a shell of the kind shell was drawn from it
Drawn(hidden, shell) ==
    IF shell = "LIVE"
    THEN HiddenState(hidden.live_shells - 1, hidden.blank_shells, None)
    ELSE HiddenState(hidden.live_shells, hidden.blank_shells - 1, None)

\* C22: in a game run by Game.run, get_move is never requested while the
\* shotgun is empty, and after every reload, before the next get_move, the
\* tracker of each agent holds exactly the numbers of live and blank shells
\* just loaded (each between 1 and the most a reload draws) and no known
\* next shell.
C22_ReloadedBeforeMove ==
    /\ state.pc = "get_move" => state._state.shells # <<>>
    /\ last.op = "_reload" =>
          /\ state.pc = "get_move"
          /\ Loaded("LIVE") \in 1..max_shells
          /\ Loaded("BLANK") \in 1..max_shells
          /\ \A role \in Role :
                Tracker(role) = HiddenState(Loaded("LIVE"), Loaded("BLANK"), None)

\* a reload in the middle of a game, of more live shells than blank ones
C22_Witness ==
    /\ last.op = "_reload"
    /\ state.action.kind = "Shoot"
    /\ Loaded("LIVE") > Loaded("BLANK")
    /\ \E role \in Role : last.pre[role]._last_move # NoMove

Informed == last.op = "receive_feedback"

\* C23: receive_feedback updates the tracker for the agent's own action:
\* Hit draws a live shell and Miss a blank one (the count is one less and
\* next_shell is None); See(shell) after the agent's own Use(BEER) draws a
\* shell of that kind; See(shell) after the agent's own Use(GLASS) sets
\* next_shell to that shell and leaves both counts unchanged; every other
\* feedback leaves the tracker unchanged.  (A draw from a count of 0 is
\* the case of C25.)
C23_OwnFeedback ==
    Informed =>
        LET pre == PreTracker(state.shooter)
            post == Tracker(state.shooter)
            feedback == state.feedback
            Draws(shell) == HiddenState_count(pre, shell) > 0
                               => post = Drawn(pre, shell)
        IN CASE feedback.kind = "Hit" -> Draws("LIVE")
             [] feedback.kind = "Miss" -> Draws("BLANK")
             [] feedback.kind = "See" /\ state.action = UseAction("BEER") ->
                    Draws(feedback.shell)
             [] feedback.kind = "See" /\ state.action = UseAction("GLASS") ->
                    post = [pre EXCEPT !.next_shell = feedback.shell]
             [] OTHER -> post = pre

Observed == last.op = "opponent_move"

Observer == opponent(state.shooter)

\* the opponent's action drew a shell: a shot, or beer that ejected one
DrewShell ==
    \/ state.action.kind = "Shoot" /\ state.feedback.kind \in {"Hit", "Miss"}
    \/ state.action = UseAction("BEER") /\ state.feedback.kind = "See"

DrawnShell ==
    CASE state.feedback.kind = "Hit" -> "LIVE"
      [] state.feedback.kind = "Miss" -> "BLANK"
      [] OTHER -> state.feedback.shell

\* C24: opponent_move decrements the matching count by one exactly when the
\* opponent's action drew a shell (a Shoot reported as Hit or Miss, or
\* Use(BEER) reported as See); an action that draws no shell, Use(GLASS)
\* reported as See included, leaves the observer's live and blank counts
\* unchanged.  (A draw from a count of 0 is the case of C25.)
C24_OpponentDraws ==
    Observed =>
        LET pre == PreTracker(Observer)
            post == Tracker(Observer)
        IN IF DrewShell
           THEN HiddenState_count(pre, DrawnShell) > 0
                   => post = Drawn(pre, DrawnShell)
           ELSE /\ post.live_shells = pre.live_shells
                /\ post.blank_shells = pre.blank_shells

\* the kind of shell the notification made last draws from the tracker of
\* the agent notified, None when it draws nothing
Notified == IF Informed THEN state.shooter ELSE Observer

NotifiedDraw ==
    CASE state.feedback.kind = "Hit" -> "LIVE"
      [] state.feedback.kind = "Miss" -> "BLANK"
      [] state.feedback.kind = "See"
           /\ (Observed \/ last.pre[Notified]._last_move = UseAction("BEER")) ->
             state.feedback.shell
      [] OTHER -> None

\* C25: when a notification (receive_feedback or opponent_move) would make
\* the tracker decrement a count that is already 0, the call raises and the
\* tracker is left as it was; the count is never clamped to 0.
C25_NoDrawFromZero ==
    (Informed \/ Observed) /\ NotifiedDraw # None
       /\ HiddenState_count(PreTracker(Notified), NotifiedDraw) = 0
    => /\ state.pc = "raised"
       /\ state._agents = last.pre

\* an agent told of a hit when its tracker held no live shell but a blank one
C25_Witness ==
    /\ Informed \/ Observed
    /\ state.feedback.kind = "Hit"
    /\ PreTracker(Notified).live_shells = 0
    /\ PreTracker(Notified).blank_shells > 0
    /\ state.pc = "raised"

---------------------------------------------------------------------------
(* Termination of the search (specification Spec)                          *)

Performed == last.op \in {"Shoot", "Use"} /\ ~last.raised

\* live count + blank count + the items held by both participants
Measure(mstate) ==
    mstate.hidden_state.live_shells + mstate.hidden_state.blank_shells
        + PlayerState_total_items(mstate.visible_state.player_state)
        + PlayerState_total_items(mstate.visible_state.dealer_state)

\* C26: every outcome of perform_action has a strictly smaller value of
\* (live count + blank count + total items held by both participants) than
\* its source state, and the value is never negative, so the recursion of
\* pick_move, which follows outcomes of perform_action, is finite.
C26_MeasureDecreases ==
    /\ Measure(state) >= 0
    /\ Performed =>
          \A i \in 1..Len(last.states) :
              /\ Measure(last.states[i].state) < Measure(last.pre)
              /\ Measure(last.states[i].state) >= 0

\* the glass used with shells of both kinds left: only the item count falls
C26_Witness ==
    /\ Performed
    /\ last.item = "GLASS"
    /\ Len(last.states) = 2
    /\ Measure(last.states[1].state) = Measure(last.pre) - 1

---------------------------------------------------------------------------
(* The operations of GameState that touch a health or an inventory, on any *)
(* visible state within the bounds: shoot, heal_current_player, take_item, *)
(* and set_player(player, health=...), which constructs a GameState with   *)
(* the health asked for.  The amounts healed are those of a non-negative   *)
(* int; the source heals by 1.                                              *)

HealCurrentPlayer(amount) ==
    LET new == GameState_heal_current_player(state.visible_state, amount)
        raised == ~GameState_post_init(new)
    IN /\ last' = [op |-> "GameState.heal_current_player", amount |-> amount,
                   pre |-> state, raised |-> raised]
       /\ state' = IF raised THEN state ELSE [state EXCEPT !.visible_state = new]

TakeItem(item) ==
    LET r == GameState_take_item(state.visible_state, item)
        raised == ~GameState_post_init(r.state)
    IN /\ last' = [op |-> "GameState.take_item", item |-> item, pre |-> state,
                   taken |-> r.taken, raised |-> raised]
       /\ state' = IF raised THEN state ELSE [state EXCEPT !.visible_state = r.state]

SetPlayer(player, health) ==
    LET new == GameState_set_player_health(state.visible_state, player, health)
        raised == ~GameState_post_init(new)
    IN /\ last' = [op |-> "GameState.set_player", player |-> player,
                   health |-> health, pre |-> state, raised |-> raised]
       /\ state' = IF raised THEN state ELSE [state EXCEPT !.visible_state = new]

NextHealth ==
    \/ \E shell \in Shell, target \in Role : GameStateShoot(shell, target)
    \/ \E amount \in 0..(MaxHealth + 1) : HealCurrentPlayer(amount)
    \/ \E item \in Item : TakeItem(item)
    \/ \E player \in Role, health \in 0..(MaxHealth + 1) : SetPlayer(player, health)

\* a new game with items handed out, the saw active or not
InitHealth ==
    \E item \in Item, k \in 0..MaxCount, saw \in BOOLEAN :
        LET g0 == GameState_add_all(GameState_new(MaxHealth),
                                    Copies(item, k), Copies(item, k))
            visible == [g0 EXCEPT !.saw_active = saw]
        IN /\ GameState_post_init(visible)
           /\ state = MinMaxState(visible, HiddenState(0, 0, None))
           /\ last = NoCall(state)

SpecHealth == InitHealth /\ [][NextHealth]_vars

\* C27: in every state reached from a valid GameState by GameState.shoot,
\* heal_current_player and take_item, the health of both participants lies
\* in 0..max_health; constructing a GameState in which a health exceeds
\* max_health raises.
C27_HealthWithinBounds ==
    /\ \A role \in Role :
          Health(state.visible_state, role) \in 0..state.visible_state.max_health
    /\ last.op = "GameState.set_player"
          => (last.raised <=> last.health > PreVisible.max_health)
    /\ last.op # "none" /\ last.raised
          => last.op = "GameState.set_player" /\ state = last.pre

\* a sawed-off live shot at a participant whose health is 1, after a heal
\* of a participant at full health
C27_Witness ==
    /\ Shot /\ last.shell = "LIVE" /\ PreVisible.saw_active
    /\ Health(PreVisible, last.target) = 1
    /\ Health(state.visible_state, last.target) = 0
    /\ Health(state.visible_state, opponent(last.target))
          = state.visible_state.max_health

---------------------------------------------------------------------------
(* PlayerState on its own: state is a PlayerState, at first PlayerState of *)
(* a health with the empty inventory; add_item, add_all and take_item are  *)
(* applied to it and state becomes the PlayerState returned.               *)

\* The longest list handed to add_all, a list [item] * n as in the tests
MaxAdd == 2

PlayerCall(op, item, items, found) ==
    [op |-> op, item |-> item, items |-> items, found |-> found, pre |-> state]

AddItem(item) ==
    /\ state' = PlayerState_add_item(state, item)
    /\ last' = PlayerCall("PlayerState.add_item", item, <<>>, FALSE)

AddAll(items) ==
    /\ state' = PlayerState_add_all(state, items)
    /\ last' = PlayerCall("PlayerState.add_all", None, items, FALSE)

PlayerTakeItem(item) ==
    LET r == PlayerState_take_item(state, item)
    IN /\ state' = r.state
       /\ last' = PlayerCall("PlayerState.take_item", item, <<>>, r.found)

InitInventory ==
    /\ state = PlayerState_new(MaxHealth)
    /\ last = PlayerCall("none", None, <<>>, FALSE)

NextInventory ==
    \/ \E item \in Item : AddItem(item)
    \/ \E n \in 0..MaxAdd, item \in Item : AddAll(Copies(item, n))
    \/ \E item \in Item : PlayerTakeItem(item)

SpecInventory == InitInventory /\ [][NextInventory]_vars

\* C28: after any sequence of add_item, add_all and take_item from an empty
\* inventory the total item count is at most 8 and no count is negative;
\* add_item on an inventory that holds 8 items returns the state unchanged,
\* and below capacity it raises the count of the added item by one and
\* nothing else.
C28_InventoryWithinCapacity ==
    /\ PlayerState_total_items(state) <= 8
    /\ \A item \in Item : PlayerState_getitem(state, item) >= 0
    /\ last.op = "PlayerState.add_item" =>
          IF PlayerState_total_items(last.pre) = 8
          THEN state = last.pre
          ELSE /\ Inventory(state)
                     = [Inventory(last.pre) EXCEPT ![last.item] = @ + 1]
               /\ state.health = last.pre.health

\* an item of a kind not yet held added to an inventory of 8 items
C28_Witness ==
    /\ last.op = "PlayerState.add_item"
    /\ PlayerState_total_items(last.pre) = 8
    /\ PlayerState_getitem(last.pre, last.item) = 0
    /\ state = last.pre

---------------------------------------------------------------------------
(* The effects of the glass and of beer (specification Spec)               *)

UsedHeld(item) ==
    /\ last.op = "Use"
    /\ last.item = item
    /\ PlayerState_contains(PreMover, item)

\* what an item that leaves the visible state alone keeps: both healths,
\* the player to move and the two modifiers
SameTable(visible) ==
    /\ \A role \in Role : Health(visible, role) = Health(PreVisible, role)
    /\ visible.current_player = PreCurrent
    /\ visible.saw_active = PreVisible.saw_active
    /\ visible.handcuffs_active = PreVisible.handcuffs_active

Weight(shell) ==
    Frac(HiddenState_count(PreHidden, shell),
         PreHidden.live_shells + PreHidden.blank_shells)

\* C29: use_glass, when glass is held, returns one outcome for each shell
\* kind with a positive count, weighted count/(live + blank), whose
\* next_shell is that kind; the live and blank counts, both healths,
\* current_player, saw_active and handcuffs_active are unchanged in every
\* outcome.
C29_GlassRevealsNext ==
    UsedHeld("GLASS") =>
        /\ ~last.raised
        /\ Len(last.states) = Len(ExpectedShells)
        /\ \A i \in 1..Len(last.states) :
              /\ FracEq(last.states[i].p_state, Weight(ExpectedShells[i]))
              /\ last.states[i].state.hidden_state
                    = [PreHidden EXCEPT !.next_shell = ExpectedShells[i]]
              /\ SameTable(last.states[i].state.visible_state)

\* the glass used with two shells of one kind and one of the other, the
\* saw active and a next shell already known
C29_Witness ==
    /\ UsedHeld("GLASS") /\ ~last.raised
    /\ Len(last.states) = 2
    /\ PreHidden.live_shells # PreHidden.blank_shells
    /\ PreHidden.next_shell # None

\* C30: use_beer, when beer is held, returns one outcome for each shell
\* kind with a positive count, weighted count/(live + blank), in which the
\* count of that kind is one less and next_shell is None; both healths,
\* current_player, saw_active and handcuffs_active are unchanged in every
\* outcome.
C30_BeerEjects ==
    UsedHeld("BEER") =>
        /\ ~last.raised
        /\ Len(last.states) = Len(ExpectedShells)
        /\ \A i \in 1..Len(last.states) :
              /\ FracEq(last.states[i].p_state, Weight(ExpectedShells[i]))
              /\ last.states[i].state.hidden_state = Drawn(PreHidden, ExpectedShells[i])
              /\ SameTable(last.states[i].state.visible_state)

\* beer used by the dealer with shells of both kinds left and the next
\* shell known
C30_Witness ==
    /\ UsedHeld("BEER") /\ ~last.raised
    /\ Len(last.states) = 2
    /\ PreCurrent = "DEALER"
    /\ PreHidden.next_shell # None


---------------------------------------------------------------------------
(* The items with a single outcome (specification Spec)                    *)

\* C31: use of cigarettes, saw or handcuffs by a holder returns exactly one
\* outcome with probability 1 in which the hidden state and current_player
\* are unchanged and the only visible effect besides the consumed item is:
\* cigarettes raise the current player's health by 1 capped at max_health,
\* the saw sets saw_active, the handcuffs set handcuffs_active.
C31_SingleOutcomeItems ==
    \A item \in {"CIGARETTES", "SAW", "HANDCUFFS"} :
        UsedHeld(item) =>
            /\ ~last.raised
            /\ Len(last.states) = 1
            /\ \A i \in 1..Len(last.states) :
                  LET post == last.states[i].state.visible_state
                      mover == GameState_getitem(post, PreCurrent)
                  IN /\ FracEq(last.states[i].p_state, Frac(1, 1))
                     /\ last.states[i].state.hidden_state = PreHidden
                     /\ post.current_player = PreCurrent
                     /\ post.max_health = PreVisible.max_health
                     /\ GameState_getitem(post, opponent(PreCurrent))
                            = GameState_getitem(PreVisible, opponent(PreCurrent))
                     /\ Inventory(mover) = [Inventory(PreMover) EXCEPT ![item] = @ - 1]
                     /\ mover.health = IF item # "CIGARETTES" THEN PreMover.health
                                       ELSE IF PreMover.health < PreVisible.max_health
                                            THEN PreMover.health + 1
                                            ELSE PreVisible.max_health
                     /\ post.saw_active = (PreVisible.saw_active \/ item = "SAW")
                     /\ post.handcuffs_active
                            = (PreVisible.handcuffs_active \/ item = "HANDCUFFS")

\* cigarettes smoked at full health with shells loaded: the cap applies
C31_Witness ==
    /\ UsedHeld("CIGARETTES") /\ ~last.raised
    /\ PreMover.health = PreVisible.max_health
    /\ PreHidden.live_shells > 0
    /\ Len(last.states) = 1


---------------------------------------------------------------------------
(* MinMaxAgent.get_move called on any visible state in which the agent is  *)
(* the one to move (specification SpecAgent).  state is the agent and the  *)
(* GameState it is asked about.                                             *)

\* agent.get_move(visible)
AgentGetMove ==
    \E best_move \in BestMoves(MinMaxState(state.visible, state.agent._hidden_state)) :
        LET r == MinMaxAgent_get_move(state.agent, state.visible, best_move)
        IN /\ state' = [state EXCEPT !.agent = r.agent]
           /\ last' = [op |-> "get_move", pre |-> state, best_move |-> best_move,
                       raised |-> r.raised, move |-> r.move]

\* agent.reset_shells(live, blank)
AgentResetShells(live, blank) ==
    LET r == MinMaxAgent_reset_shells(state.agent, live, blank)
    IN /\ state' = [state EXCEPT !.agent = r.agent]
       /\ last' = [op |-> "reset_shells", pre |-> state, best_move |-> NoMove,
                   raised |-> r.raised, move |-> NoMove]

InitAgent ==
    \E role \in Role, item \in Item, k \in 0..MaxCount,
       player_health \in 0..MaxHealth, dealer_health \in 0..MaxHealth :
        LET new == GameState_add_all(GameState_new(MaxHealth),
                                     Copies(item, k), Copies(item, k))
            hurt == GameState_set_player_health(
                        GameState_set_player_health(new, "PLAYER", player_health),
                        "DEALER", dealer_health)
        IN /\ state = [agent |-> MinMaxAgent_init(role),
                       visible |-> [hurt EXCEPT !.current_player = role]]
           /\ last = [op |-> "__init__", pre |-> state, best_move |-> NoMove,
                      raised |-> FALSE, move |-> NoMove]

NextAgent ==
    \/ AgentGetMove
    \/ \E live \in 0..MaxShells, blank \in 0..MaxShells : AgentResetShells(live, blank)

SpecAgent == InitAgent /\ [][NextAgent]_vars

\* get_move goes on to the search: the cigarettes are not forced
Searches ==
    LET my_state == GameState_getitem(last.pre.visible, last.pre.agent.role)
    IN ~(/\ my_state.health < last.pre.visible.max_health
         /\ PlayerState_contains(my_state, "CIGARETTES"))

\* C32: MinMaxAgent.get_move never returns None: whenever the search yields
\* no move (a health is 0, or the agent's tracker holds zero live and zero
\* blank shells) it raises an error instead of returning.
C32_NeverReturnsNone ==
    last.op = "get_move" =>
        /\ ~last.raised => last.move # NoMove
        /\ (Searches /\ last.best_move = NoMove) => last.raised
        /\ (/\ Searches
            /\ \/ last.pre.visible.player_state.health = 0
               \/ last.pre.visible.dealer_state.health = 0
               \/ /\ last.pre.agent._hidden_state.live_shells = 0
                  /\ last.pre.agent._hidden_state.blank_shells = 0)
               => last.raised

\* the search has no move for a tracker without shells, both alive, and
\* get_move raises
C32_Witness ==
    /\ last.op = "get_move" /\ last.raised
    /\ last.pre.visible.player_state.health > 0
    /\ last.pre.visible.dealer_state.health > 0
    /\ last.pre.agent._hidden_state.live_shells = 0
    /\ last.pre.agent._hidden_state.blank_shells = 0
    /\ last.move = NoMove


---------------------------------------------------------------------------
(* The manager's state in a game (specification SpecGame)                  *)

Managed == state._state.visible_state

\* C33: after any sequence of GameStateManager.shoot and
\* GameStateManager.use_item operations applied by the driver from a new
\* game with any inventories, each participant's health stays within
\* [0, initial (maximum) health].
C33_ManagedHealthWithinBounds ==
    \A role \in Role :
        /\ GameState_getitem(Managed, role).health >= 0
        /\ GameState_getitem(Managed, role).health <= Managed.max_health


---------------------------------------------------------------------------
(* GameStateManager called operation by operation (specification           *)
(* SpecManager).  state is the FullGameState the caller holds; last is the *)
(* call made last, with the state it was made on and what it returned.     *)

ManagerCall(op, target, item, pre, r) ==
    [op |-> op, target |-> target, item |-> item, pre |-> pre,
     raised |-> r.raised, feedback |-> r.feedback]

\* both are alive: the calls are made on a game that is not over
Alive ==
    \A role \in Role : GameState_getitem(state.visible_state, role).health > 0

\* feedback, state = manager.shoot(state, target)
ManagerShoot(target) ==
    /\ Alive
    /\ LET r == GameStateManager_shoot(state, target)
       IN /\ state' = r.state
          /\ last' = ManagerCall("shoot", target, None, state, r)

\* feedback, state = manager.use_item(state, item)
ManagerUseItem(item) ==
    /\ Alive
    /\ LET r == GameStateManager_use_item(state, item)
       IN /\ state' = r.state
          /\ last' = ManagerCall("use_item", None, item, state, r)

\* counts, state = manager.reload(state), called as Game._reload calls it
ManagerReload ==
    /\ Alive
    /\ state.shells = <<>>
    /\ \E live \in 1..max_shells, blank \in 1..max_shells :
         \E shells \in Shuffles(live, blank) :
            LET r == GameStateManager_reload(state, live, blank, shells \o <<>>)
            IN /\ state' = r.state
               /\ last' = ManagerCall("reload", None, None, state,
                                      Result(NoFeedback, r.state))

(* manager.new() with the inventories set as the tests of the manager set *)
(* them                                                                    *)
InitManager ==
    \E item \in Item, k \in 0..MaxCount :
        LET new == GameStateManager_new(MaxHealth)
            full == [new EXCEPT !.visible_state =
                        GameState_add_all(@, Copies(item, k), Copies(item, k))]
        IN /\ state = full
           /\ last = ManagerCall("new", None, None, full, Result(NoFeedback, full))

NextManager ==
    \/ \E target \in Role : ManagerShoot(target)
    \/ \E item \in Item : ManagerUseItem(item)
    \/ ManagerReload

SpecManager == InitManager /\ [][NextManager]_vars

\* the player who made the last call, before and after it
Holder == GameState_getitem(last.pre.visible_state, last.pre.visible_state.current_player)
HolderAfter == GameState_getitem(state.visible_state, last.pre.visible_state.current_player)

\* C34: GameStateManager.use_item on an item the current player holds (with
\* a shell loaded) returns a non-None feedback and a state in which the
\* current player's count of that item is exactly one less and the
\* opponent's inventory is unchanged, for each of the five items.
C34_UseItemTakesOne ==
    (/\ last.op = "use_item"
     /\ PlayerState_contains(Holder, last.item)
     /\ last.pre.shells # <<>>)
        => /\ ~last.raised
           /\ last.feedback # NoFeedback
           /\ Inventory(HolderAfter) = [Inventory(Holder) EXCEPT ![last.item] = @ - 1]
           /\ Inventory(GameState_getitem(state.visible_state,
                            opponent(last.pre.visible_state.current_player)))
                = Inventory(GameState_getitem(last.pre.visible_state,
                            opponent(last.pre.visible_state.current_player)))


---------------------------------------------------------------------------
(* The value of the search (specification SpecSearch)                      *)

InUnitInterval(frac) ==
    /\ ~FracLess(frac, Frac(0, 1))
    /\ ~FracLess(Frac(1, 1), frac)

\* C35: for every state, the win probability returned by pick_move lies in
\* [0, 1]; so does the win probability of every option it scored.
C35_WinProbabilityInUnitInterval ==
    (Picked /\ ~last.result.raised) =>
        /\ InUnitInterval(last.result.p_win)
        /\ \A i \in 1..Len(last.result.options) :
              InUnitInterval(last.result.options[i].p_win)

\* a search over a live and a blank shell whose value is strictly between
\* 0 and 1
C35_Witness ==
    /\ Picked /\ ~last.result.raised
    /\ last.result.move # NoMove
    /\ last.pre.hidden_state.live_shells > 0
    /\ last.pre.hidden_state.blank_shells > 0
    /\ FracLess(Frac(0, 1), last.result.p_win)
    /\ FracLess(last.result.p_win, Frac(1, 1))


---------------------------------------------------------------------------
(* The invariant of HiddenState along the actions (specification Spec)     *)

NextShellIsLeft(hidden) ==
    /\ hidden.live_shells >= 0
    /\ hidden.blank_shells >= 0
    /\ hidden.next_shell = "LIVE" => hidden.live_shells > 0
    /\ hidden.next_shell = "BLANK" => hidden.blank_shells > 0

\* C36: every state produced by perform_action, after any sequence of
\* actions from a state satisfying the HiddenState invariant, also
\* satisfies it: the live and blank counts are non-negative, and next_shell
\* is never a kind whose remaining count is 0.  No action is stopped by the
\* invariant either: perform_action raises only for an item that is not
\* held.
C36_HiddenInvariantPreserved ==
    /\ NextShellIsLeft(state.hidden_state)
    /\ \A i \in 1..Len(last.states) :
          NextShellIsLeft(last.states[i].state.hidden_state)
    /\ last.raised => (last.op = "Use" /\ ~PlayerState_contains(PreMover, last.item))

\* the only live shell was known to be next and has been shot: the count
\* is 0 and no next shell is known
C36_Witness ==
    /\ last.op = "Shoot" /\ ~last.raised
    /\ PreHidden.next_shell = "LIVE"
    /\ PreHidden.live_shells = 1
    /\ state.hidden_state.live_shells = 0
    /\ state.hidden_state.next_shell = None


---------------------------------------------------------------------------
(* The arguments of the estimator (specification SpecRuns)                 *)

\* C37: in the exhausted-ammunition case pick_move calls the estimator
\* with the player's health as first argument, the dealer's health as
\* second argument, and player_to_move true exactly when current_player is
\* PLAYER.
C37_EstimatorArguments ==
    (Picked /\ NoShells /\ BothAlive) =>
        last.result.calls =
            {<<last.pre.visible_state.player_state.health,
               last.pre.visible_state.dealer_state.health,
               last.pre.visible_state.current_player = "PLAYER">>}


---------------------------------------------------------------------------
(* The trackers and the shotgun (specification SpecGame)                   *)

\* C38: in a game following Game.run's protocol, for any inventories, after
\* every action (once the mover has received receive_feedback and the
\* other agent opponent_move) each MinMaxAgent's tracked live and blank
\* counts equal the numbers of live and blank shells actually left in the
\* shotgun, so no notification ever raises an inconsistency error.
C38_TrackersMatchShotgun ==
    /\ (Observed /\ state.pc # "raised") =>
           \A role \in Role :
               /\ Tracker(role).live_shells = Loaded("LIVE")
               /\ Tracker(role).blank_shells = Loaded("BLANK")
    /\ (Informed \/ Observed) => state.pc # "raised"


---------------------------------------------------------------------------
(* The shot of the search and the shot of the driver (specification        *)
(* SpecManager)                                                            *)

\* C39: the search model agrees with the driver on a shot: for every
\* visible state, chambered shell kind and target, GameState.shoot(shell,
\* target) yields the same resulting healths, current_player, saw_active
\* and handcuffs_active as GameStateManager.shoot does when that shell is
\* the one popped.
C39_ShotsAgree ==
    (last.op = "shoot" /\ ~last.raised) =>
        LET searched == GameState_shoot(last.pre.visible_state,
                                        GameStateManager_peek_shell(last.pre),
                                        last.target)
            driven == state.visible_state
        IN /\ \A role \in Role : Health(driven, role) = Health(searched, role)
           /\ driven.current_player = searched.current_player
           /\ driven.saw_active = searched.saw_active
           /\ driven.handcuffs_active = searched.handcuffs_active


---------------------------------------------------------------------------
(* The listed moves performed one after another, as the search performs    *)
(* them (specification SpecPlay).  state is the MinMaxState reached.       *)

\* pick_move goes on to list_moves: both are alive and a shell is loaded
Searching(mstate) ==
    /\ mstate.visible_state.player_state.health # 0
    /\ mstate.visible_state.dealer_state.health # 0
    /\ ~(mstate.hidden_state.blank_shells = 0 /\ mstate.hidden_state.live_shells = 0)

\* state.perform_action(move) for a move of list_moves(state), followed
\* into one of its outcomes
PlayMove ==
    /\ Searching(state)
    /\ \E i \in 1..Len(list_moves(state)) : PerformAction(list_moves(state)[i])

(* The states the moves start from: the player holds one item of each     *)
(* kind of any set of kinds, the dealer one of each kind or nothing,       *)
(* either is to move, any valid HiddenState of at most MaxShells shells.   *)
InitPlay ==
    \E held \in SUBSET Item, others \in {{}, Item}, cp \in Role,
       live \in 0..MaxShells, blank \in 0..MaxShells, next \in Shell \cup {None} :
        LET mine == ItemsOf([item \in Item |-> IF item \in held THEN 1 ELSE 0])
            theirs == ItemsOf([item \in Item |-> IF item \in others THEN 1 ELSE 0])
            g0 == GameState_add_all(GameState_new(MaxHealth), mine, theirs)
            visible == [g0 EXCEPT !.current_player = cp]
            hidden == HiddenState(live, blank, next)
        IN /\ live + blank <= MaxShells
           /\ GameState_post_init(visible)
           /\ HiddenState_post_init(hidden)
           /\ state = MinMaxState(visible, hidden)
           /\ last = NoCall(state)

NextPlay == PlayMove

SpecPlay == InitPlay /\ [][NextPlay]_vars

\* C40: for every state with both healths above 0 and at least one shell
\* loaded, every move returned by list_moves is accepted by perform_action:
\* it raises no misuse error and returns at least one outcome, and this
\* stays true in every state reached by applying such moves.
C40_ListedMovesAccepted ==
    /\ last.op \in {"Shoot", "Use"} => (~last.raised /\ Len(last.states) >= 1)
    /\ (/\ Health(state.visible_state, "PLAYER") > 0
        /\ Health(state.visible_state, "DEALER") > 0
        /\ state.hidden_state.live_shells + state.hidden_state.blank_shells >= 1)
          => \A i \in 1..Len(list_moves(state)) :
                /\ ~MinMaxState_perform_action(state, list_moves(state)[i]).raised
                /\ Len(MinMaxState_perform_action(state, list_moves(state)[i]).states) >= 1

\* the last item of a kind has been used, after another listed move, and
\* the moves listed in the outcome are accepted again
C40_Witness ==
    /\ last.op = "Use" /\ ~last.raised
    /\ last.pre # state
    /\ PlayerState_getitem(PreMover, last.item) = 1
    /\ PreVisible.current_player = "DEALER"
    /\ Searching(state)
    /\ Len(list_moves(state)) >= 3

===========================================================================
